------------------------------ MODULE Spec2Model ------------------------------
(***************************************************************************)
(* The farmer-query backend: the rule-based responder of                   *)
(* app/services/ai_service.py (get_ai_response, analyze_image and their    *)
(* helpers) and the farmer routes of app/routes/farmers.py that call it.   *)
(*                                                                         *)
(* A Python str is the sequence of its Unicode code points, so that        *)
(* lower(), split(), `in` and format() are computed character by           *)
(* character.  The literal above each sequence is the text it encodes      *)
(* (given for ASCII texts; the Hindi and Telugu texts are the literals of  *)
(* the source at the mapped lines).                                        *)
(* A float is the integer number of its tenths (confidence 0.8 is 8),      *)
(* except the image analysis' own confidence, held in hundredths.          *)
(* An argument that may be None or of another type is a tagged value:      *)
(* None, Str(s), PyInt(n) or Dict(d).                                        *)
(***************************************************************************)
EXTENDS Integers, Sequences, FiniteSets, TLC

VARIABLES
  call,            \* the latest call of get_ai_response: its arguments and what it returned
  farmer_queries,  \* the rows of the store's table "farmer_queries", in insertion order
  storage,         \* the paths uploaded to the bucket "farmer-images"
  uuids,           \* how many uuid4 values have been drawn
  clock,           \* how many times the clock (datetime.utcnow) has been read
  served,          \* how many requests the farmer routes have been sent
  pc,              \* where the handler of the request is: idle, analyzing (awaiting
                   \* analyze_image), analyzed (analyze_image has returned), done
  req,             \* the request being handled by a farmer route, with the handler's locals
  resp,            \* the latest HTTP response of a farmer route
  queries,         \* the rows of the store's table "queries", by id
  profiles,        \* the rows of the store's table "profiles", by id
  replies,         \* the rows of the store's table "replies", in insertion order
  officer          \* the requests the officer routes are handling, one per worker
                   \* thread: the handler's position, its locals and its response

vars == <<call, farmer_queries, storage, uuids, clock, served, pc, req, resp,
          queries, profiles, replies, officer>>

\* the state of the officer routes
officer_vars == <<queries, profiles, replies, officer>>

----------------------------------------------------------------------------
(* Python values and the str operations the code uses *)

None == [tag |-> "None"]
Str(s) == [tag |-> "str", v |-> s]
PyInt(n) == [tag |-> "int", v |-> n]
Dict(d) == [tag |-> "dict", v |-> d]

\* bool(x): None, "", 0 and {} are false
Truthy(x) ==
  CASE x.tag = "None" -> FALSE
    [] x.tag = "str" -> x.v # <<>>
    [] x.tag = "int" -> x.v # 0
    [] x.tag = "dict" -> DOMAIN x.v # {}

\* str.lower(): A-Z (65..90) become a-z; the other characters of the model's
\* texts (digits, punctuation, Devanagari, Telugu) have no lower-case form
lower(s) == [i \in 1..Len(s) |-> IF s[i] \in 65..90 THEN s[i] + 32 ELSE s[i]]

\* str.isspace() of one character: tab, LF, VT, FF, CR, space
IsSpace(c) == c \in {9, 10, 11, 12, 13, 32}

\* where the tokens of s start: a character that is no whitespace, at the
\* start of s or after whitespace
token_starts(s) == {i \in 1..Len(s) : ~IsSpace(s[i]) /\ (i = 1 \/ IsSpace(s[i - 1]))}

\* where the token that starts at i ends
token_end(s, i) ==
  CHOOSE e \in i..Len(s) :
    /\ \A j \in i..e : ~IsSpace(s[j])
    /\ e = Len(s) \/ IsSpace(s[e + 1])

\* str.split(): the maximal runs of characters that are no whitespace, in order
split(s) ==
  LET starts == token_starts(s)
  IN [k \in 1..Cardinality(starts) |->
        LET i == CHOOSE x \in starts : Cardinality({y \in starts : y < x}) = k - 1
        IN SubSeq(s, i, token_end(s, i))]

\* sub occurs in s at offset i (0-based)
OccursAt(sub, s, i) ==
  /\ i + Len(sub) <= Len(s)
  /\ \A j \in 1..Len(sub) : s[i + j] = sub[j]

\* `sub in s` of two strs
contains(sub, s) == \E i \in 0..(Len(s) - Len(sub)) : OccursAt(sub, s, i)

RECURSIVE replace(_, _, _)
\* s.replace(old, new), old not empty: every occurrence of old, from the left
replace(s, old, new) ==
  LET hits == {i \in 0..(Len(s) - Len(old)) : OccursAt(old, s, i)}
      first == CHOOSE i \in hits : \A j \in hits : i <= j
  IN IF hits = {} THEN s
     ELSE SubSeq(s, 1, first) \o new \o replace(SubSeq(s, first + Len(old) + 1, Len(s)), old, new)

\* template.format(name=value), for a template whose only fields are {name}:
\* 123 and 125 are the braces
format(template, name, value) == replace(template, <<123>> \o name \o <<125>>, value)

\* d.get(key, default) of a dict held as the sequence of its <<key, value>> items
get(d, key, default) ==
  IF \E i \in 1..Len(d) : d[i][1] = key
  THEN d[CHOOSE i \in 1..Len(d) : d[i][1] = key][2]
  ELSE default

\* d.get(key, default) of a dict held as a record
rget(d, key, default) == IF key \in DOMAIN d THEN d[key] ELSE default

\* seq[:n]
Prefix(seq, n) == SubSeq(seq, 1, IF Len(seq) < n THEN Len(seq) ELSE n)

----------------------------------------------------------------------------
(* The static tables of app/services/ai_service.py *)

\* FARMING_KNOWLEDGE["diseases"]["en"]: the diseases of language en, in insertion order
FARMING_KNOWLEDGE_diseases_en ==
  <<
    <<
      (* "leaf_spot" *)
      <<108,101,97,102,95,115,112,111,116>>,
      [
        symptoms |->
          <<
            (* "yellow spots on leaves" *)
            <<121,101,108,108,111,119,32,115,112,111,116,115,32,111,110,32,108,101,97,118,101,115>>,
            (* "brown patches" *)
            <<98,114,111,119,110,32,112,97,116,99,104,101,115>>,
            (* "wilting" *)
            <<119,105,108,116,105,110,103>>
          >>,
        treatment |->
          (* "Apply fungicide spray every 7 days. Remove affected leaves. Improve air circulation." *)
          <<65,112,112,108,121,32,102,117,110,103,105,99,105,100,101,32,115,112,114,97,121,32,101,118,101,
            114,121,32,55,32,100,97,121,115,46,32,82,101,109,111,118,101,32,97,102,102,101,99,
            116,101,100,32,108,101,97,118,101,115,46,32,73,109,112,114,111,118,101,32,97,105,
            114,32,99,105,114,99,117,108,97,116,105,111,110,46>>,
        prevention |->
          (* "Avoid overhead watering, ensure proper spacing between plants." *)
          <<65,118,111,105,100,32,111,118,101,114,104,101,97,100,32,119,97,116,101,114,105,110,103,44,32,
            101,110,115,117,114,101,32,112,114,111,112,101,114,32,115,112,97,99,105,110,103,32,
            98,101,116,119,101,101,110,32,112,108,97,110,116,115,46>>
      ]
    >>,
    <<
      (* "blight" *)
      <<98,108,105,103,104,116>>,
      [
        symptoms |->
          <<
            (* "dark spots" *)
            <<100,97,114,107,32,115,112,111,116,115>>,
            (* "yellowing leaves" *)
            <<121,101,108,108,111,119,105,110,103,32,108,101,97,118,101,115>>,
            (* "plant death" *)
            <<112,108,97,110,116,32,100,101,97,116,104>>
          >>,
        treatment |->
          (* "Use copper-based fungicide. Remove infected plants immediately." *)
          <<85,115,101,32,99,111,112,112,101,114,45,98,97,115,101,100,32,102,117,110,103,105,99,105,100,
            101,46,32,82,101,109,111,118,101,32,105,110,102,101,99,116,101,100,32,112,108,97,
            110,116,115,32,105,109,109,101,100,105,97,116,101,108,121,46>>,
        prevention |->
          (* "Crop rotation, avoid wet conditions, resistant varieties." *)
          <<67,114,111,112,32,114,111,116,97,116,105,111,110,44,32,97,118,111,105,100,32,119,101,116,32,
            99,111,110,100,105,116,105,111,110,115,44,32,114,101,115,105,115,116,97,110,116,32,
            118,97,114,105,101,116,105,101,115,46>>
      ]
    >>,
    <<
      (* "rust" *)
      <<114,117,115,116>>,
      [
        symptoms |->
          <<
            (* "orange/brown spots" *)
            <<111,114,97,110,103,101,47,98,114,111,119,110,32,115,112,111,116,115>>,
            (* "leaf drop" *)
            <<108,101,97,102,32,100,114,111,112>>,
            (* "stunted growth" *)
            <<115,116,117,110,116,101,100,32,103,114,111,119,116,104>>
          >>,
        treatment |->
          (* "Apply sulfur-based fungicide. Improve drainage." *)
          <<65,112,112,108,121,32,115,117,108,102,117,114,45,98,97,115,101,100,32,102,117,110,103,105,99,
            105,100,101,46,32,73,109,112,114,111,118,101,32,100,114,97,105,110,97,103,101,46>>,
        prevention |->
          (* "Plant resistant varieties, avoid overhead irrigation." *)
          <<80,108,97,110,116,32,114,101,115,105,115,116,97,110,116,32,118,97,114,105,101,116,105,101,115,
            44,32,97,118,111,105,100,32,111,118,101,114,104,101,97,100,32,105,114,114,105,103,
            97,116,105,111,110,46>>
      ]
    >>
  >>

\* FARMING_KNOWLEDGE["diseases"]["hi"]: the diseases of language hi, in insertion order
FARMING_KNOWLEDGE_diseases_hi ==
  <<
    <<
      (* "leaf_spot" *)
      <<108,101,97,102,95,115,112,111,116>>,
      [
        symptoms |->
          <<
            <<2346,2340,2381,2340,2367,2351,2379,2306,32,2346,2352,32,2346,2368,2354,2375,32,2343,2348,2381,
              2348,2375>>,
            <<2349,2370,2352,2375,32,2346,2376,2330>>,
            <<2350,2369,2352,2333,2366,2344,2366>>
          >>,
        treatment |->
          <<2361,2352,32,55,32,2342,2367,2344,32,2350,2375,2306,32,2347,2306,2327,2368,2360,2366,2311,
            2337,32,2360,2381,2346,2381,2352,2375,32,2325,2352,2375,2306,2404,32,2346,2381,2352,
            2349,2366,2357,2367,2340,32,2346,2340,2381,2340,2367,2351,2379,2306,32,2325,2379,32,
            2361,2335,2366,32,2342,2375,2306,2404,32,2361,2357,2366,32,2325,2366,32,2360,2306,
            2330,2366,2352,32,2348,2375,2361,2340,2352,32,2325,2352,2375,2306,2404>>,
        prevention |->
          <<2314,2346,2352,32,2360,2375,32,2346,2366,2344,2368,32,2342,2375,2344,2375,32,2360,2375,32,
            2348,2330,2375,2306,44,32,2346,2380,2343,2379,2306,32,2325,2375,32,2348,2368,2330,
            32,2313,2330,2367,2340,32,2342,2370,2352,2368,32,2352,2326,2375,2306,2404>>
      ]
    >>,
    <<
      (* "blight" *)
      <<98,108,105,103,104,116>>,
      [
        symptoms |->
          <<
            <<2325,2366,2354,2375,32,2343,2348,2381,2348,2375>>,
            <<2346,2340,2381,2340,2367,2351,2379,2306,32,2325,2366,32,2346,2368,2354,2366,32,2361,2379,2344,
              2366>>,
            <<2346,2380,2343,2375,32,2325,2368,32,2350,2371,2340,2381,2351,2369>>
          >>,
        treatment |->
          <<2325,2377,2346,2352,32,2310,2343,2366,2352,2367,2340,32,2347,2306,2327,2368,2360,2366,2311,
            2337,32,2325,2366,32,2313,2346,2351,2379,2327,32,2325,2352,2375,2306,2404,32,2360,
            2306,2325,2381,2352,2350,2367,2340,32,2346,2380,2343,2379,2306,32,2325,2379,32,2340,
            2369,2352,2306,2340,32,2361,2335,2366,32,2342,2375,2306,2404>>,
        prevention |->
          <<2347,2360,2354,32,2330,2325,2381,2352,44,32,2327,2368,2354,2368,32,2360,2381,2341,2367,2340,
            2367,2351,2379,2306,32,2360,2375,32,2348,2330,2375,2306,44,32,2346,2381,2352,2340,
            2367,2352,2379,2343,2368,32,2325,2367,2360,2381,2350,2375,2306,2404>>
      ]
    >>,
    <<
      (* "rust" *)
      <<114,117,115,116>>,
      [
        symptoms |->
          <<
            <<2344,2366,2352,2306,2327,2368,47,2349,2370,2352,2375,32,2343,2348,2381,2348,2375>>,
            <<2346,2340,2381,2340,2368,32,2327,2367,2352,2344,2366>>,
            <<2348,2380,2344,2368,32,2357,2371,2342,2381,2343,2367>>
          >>,
        treatment |->
          <<2360,2354,2381,2347,2352,32,2310,2343,2366,2352,2367,2340,32,2347,2306,2327,2368,2360,2366,
            2311,2337,32,2354,2327,2366,2319,2306,2404,32,2332,2354,32,2344,2367,2325,2366,2360,
            2368,32,2350,2375,2306,32,2360,2369,2343,2366,2352,32,2325,2352,2375,2306,2404>>,
        prevention |->
          <<2346,2381,2352,2340,2367,2352,2379,2343,2368,32,2325,2367,2360,2381,2350,2375,2306,32,2354,
            2327,2366,2319,2306,44,32,2314,2346,2352,2368,32,2360,2367,2306,2330,2366,2312,32,
            2360,2375,32,2348,2330,2375,2306,2404>>
      ]
    >>
  >>

\* FARMING_KNOWLEDGE["diseases"]["te"]: the diseases of language te, in insertion order
FARMING_KNOWLEDGE_diseases_te ==
  <<
    <<
      (* "leaf_spot" *)
      <<108,101,97,102,95,115,112,111,116>>,
      [
        symptoms |->
          <<
            <<3078,3093,3137,3122,3114,3144,32,3114,3128,3137,3114,3137,32,3118,3098,3149,3098,3122,3137>>,
            <<3095,3147,3111,3137,3118,32,3120,3074,3095,3137,32,3114,3134,3098,3142,3128,3149>>,
            <<3125,3134,3105,3135,3114,3147,3125,3105,3074>>
          >>,
        treatment |->
          <<3114,3149,3120,3108,3135,32,55,32,3120,3147,3100,3137,3122,3093,3137,32,3115,3074,3095,3135,
            3128,3144,3105,3149,32,3128,3149,3114,3149,3120,3143,32,3098,3143,3119,3074,3105,
            3135,46,32,3114,3149,3120,3117,3134,3125,3135,3108,32,3078,3093,3137,3122,3112,3137,
            32,3108,3146,3122,3095,3135,3074,3098,3074,3105,3135,46,32,3095,3134,3122,3135,32,
            3128,3120,3149,3093,3149,3119,3137,3122,3143,3127,3112,3149,32,3118,3142,3120,3137,
            3095,3137,3114,3120,3098,3074,3105,3135,46>>,
        prevention |->
          <<3114,3144,3112,3137,3074,3105,3135,32,3112,3136,3120,3137,32,3114,3147,3119,3105,3074,32,3118,
            3134,3112,3074,3105,3135,44,32,3118,3146,3093,3149,3093,3122,32,3118,3111,3149,3119,
            32,3128,3120,3144,3112,32,3110,3138,3120,3074,32,3081,3074,3098,3074,3105,3135,46>>
      ]
    >>,
    <<
      (* "blight" *)
      <<98,108,105,103,104,116>>,
      [
        symptoms |->
          <<
            <<3118,3137,3110,3137,3120,3137,32,3118,3098,3149,3098,3122,3137>>,
            <<3078,3093,3137,3122,32,3114,3128,3137,3114,3137,32,3120,3074,3095,3137>>,
            <<3118,3146,3093,3149,3093,32,3118,3120,3107,3074>>
          >>,
        treatment |->
          <<3093,3134,3114,3120,3149,32,3078,3111,3134,3120,3135,3108,32,3115,3074,3095,3135,3128,3144,
            3105,3149,32,3125,3134,3105,3074,3105,3135,46,32,3125,3149,3119,3134,3111,3135,3095,
            3149,3120,3128,3149,3108,32,3118,3146,3093,3149,3093,3122,3112,3137,32,3125,3142,
            3074,3103,3112,3143,32,3108,3146,3122,3095,3135,3074,3098,3074,3105,3135,46>>,
        prevention |->
          <<3114,3074,3103,32,3118,3134,3120,3149,3114,3135,3105,3135,44,32,3108,3105,3135,32,3114,3120,
            3135,3128,3149,3109,3135,3108,3137,3122,3112,3137,32,3112,3135,3125,3134,3120,3135,
            3074,3098,3074,3105,3135,44,32,3112,3135,3120,3147,3111,3093,32,3120,3093,3134,3122,
            3137,46>>
      ]
    >>,
    <<
      (* "rust" *)
      <<114,117,115,116>>,
      [
        symptoms |->
          <<
            <<3112,3134,3120,3135,3074,3100,47,3095,3147,3111,3137,3118,32,3118,3098,3149,3098,3122,3137>>,
            <<3078,3093,3137,32,3120,3134,3122,3137,3103>>,
            <<3093,3137,3074,3095,3135,3114,3147,3119,3135,3112,32,3114,3142,3120,3137,3095,3137,3110,3122>>
          >>,
        treatment |->
          <<3128,3122,3149,3115,3120,3149,32,3078,3111,3134,3120,3135,3108,32,3115,3074,3095,3135,3128,
            3144,3105,3149,32,3125,3143,3119,3074,3105,3135,46,32,3105,3149,3120,3144,3112,3143,
            3100,3136,32,3118,3142,3120,3137,3095,3137,3114,3120,3098,3074,3105,3135,46>>,
        prevention |->
          <<3112,3135,3120,3147,3111,3093,32,3120,3093,3134,3122,3112,3137,32,3112,3134,3103,3074,3105,
            3135,44,32,3114,3144,3112,3137,3074,3105,3135,32,3112,3136,3120,3074,3110,3135,3074,
            3098,3105,3074,32,3118,3134,3112,3074,3105,3135,46>>
      ]
    >>
  >>

\* FARMING_KNOWLEDGE["pests"]["en"]: the pests of language en, in insertion order
FARMING_KNOWLEDGE_pests_en ==
  <<
    <<
      (* "aphids" *)
      <<97,112,104,105,100,115>>,
      [
        identification |->
          (* "Small green/black insects on leaves and stems" *)
          <<83,109,97,108,108,32,103,114,101,101,110,47,98,108,97,99,107,32,105,110,115,101,99,116,115,32,
            111,110,32,108,101,97,118,101,115,32,97,110,100,32,115,116,101,109,115>>,
        treatment |->
          (* "Use neem oil spray or insecticidal soap. Release ladybugs." *)
          <<85,115,101,32,110,101,101,109,32,111,105,108,32,115,112,114,97,121,32,111,114,32,105,110,115,
            101,99,116,105,99,105,100,97,108,32,115,111,97,112,46,32,82,101,108,101,97,115,101,
            32,108,97,100,121,98,117,103,115,46>>,
        prevention |->
          (* "Companion planting with marigolds, regular inspection." *)
          <<67,111,109,112,97,110,105,111,110,32,112,108,97,110,116,105,110,103,32,119,105,116,104,32,109,
            97,114,105,103,111,108,100,115,44,32,114,101,103,117,108,97,114,32,105,110,115,112,
            101,99,116,105,111,110,46>>
      ]
    >>,
    <<
      (* "whiteflies" *)
      <<119,104,105,116,101,102,108,105,101,115>>,
      [
        identification |->
          (* "Tiny white flying insects under leaves" *)
          <<84,105,110,121,32,119,104,105,116,101,32,102,108,121,105,110,103,32,105,110,115,101,99,116,
            115,32,117,110,100,101,114,32,108,101,97,118,101,115>>,
        treatment |->
          (* "Yellow sticky traps, neem oil, remove affected leaves." *)
          <<89,101,108,108,111,119,32,115,116,105,99,107,121,32,116,114,97,112,115,44,32,110,101,101,109,
            32,111,105,108,44,32,114,101,109,111,118,101,32,97,102,102,101,99,116,101,100,32,
            108,101,97,118,101,115,46>>,
        prevention |->
          (* "Good air circulation, avoid over-fertilizing with nitrogen." *)
          <<71,111,111,100,32,97,105,114,32,99,105,114,99,117,108,97,116,105,111,110,44,32,97,118,111,105,
            100,32,111,118,101,114,45,102,101,114,116,105,108,105,122,105,110,103,32,119,105,
            116,104,32,110,105,116,114,111,103,101,110,46>>
      ]
    >>
  >>

\* FARMING_KNOWLEDGE["pests"]["hi"]: the pests of language hi, in insertion order
FARMING_KNOWLEDGE_pests_hi ==
  <<
    <<
      (* "aphids" *)
      <<97,112,104,105,100,115>>,
      [
        identification |->
          <<2346,2340,2381,2340,2367,2351,2379,2306,32,2324,2352,32,2340,2344,2379,2306,32,2346,2352,32,
            2331,2379,2335,2375,32,2361,2352,2375,47,2325,2366,2354,2375,32,2325,2368,2337,2364,
            2375>>,
        treatment |->
          <<2344,2368,2350,32,2325,2366,32,2340,2375,2354,32,2360,2381,2346,2381,2352,2375,32,2351,2366,
            32,2325,2368,2335,2344,2366,2358,2325,32,2360,2366,2348,2369,2344,32,2325,2366,32,
            2313,2346,2351,2379,2327,32,2325,2352,2375,2306,2404,32,2354,2375,2337,2368,2348,
            2327,2381,2360,32,2331,2379,2337,2364,2375,2306,2404>>,
        prevention |->
          <<2327,2375,2306,2342,2375,32,2325,2375,32,2360,2366,2341,32,2360,2366,2341,2368,32,2352,2379,
            2346,2339,44,32,2344,2367,2351,2350,2367,2340,32,2344,2367,2352,2368,2325,2381,2359,
            2339,2404>>
      ]
    >>,
    <<
      (* "whiteflies" *)
      <<119,104,105,116,101,102,108,105,101,115>>,
      [
        identification |->
          <<2346,2340,2381,2340,2367,2351,2379,2306,32,2325,2375,32,2344,2368,2330,2375,32,2331,2379,2335,
            2375,32,2360,2347,2375,2342,32,2313,2337,2364,2344,2375,32,2357,2366,2354,2375,32,
            2325,2368,2337,2364,2375>>,
        treatment |->
          <<2346,2368,2354,2375,32,2330,2367,2346,2330,2367,2346,2375,32,2332,2366,2354,44,32,2344,2368,
            2350,32,2325,2366,32,2340,2375,2354,44,32,2346,2381,2352,2349,2366,2357,2367,2340,
            32,2346,2340,2381,2340,2367,2351,2379,2306,32,2325,2379,32,2361,2335,2366,2319,2306,
            2404>>,
        prevention |->
          <<2309,2330,2381,2331,2366,32,2361,2357,2366,32,2325,2366,32,2360,2306,2330,2366,2352,44,32,
            2344,2366,2311,2335,2381,2352,2379,2332,2344,32,2325,2375,32,2360,2366,2341,32,2309,
            2343,2367,2325,32,2313,2352,2381,2357,2352,2325,32,2360,2375,32,2348,2330,2375,2306,
            2404>>
      ]
    >>
  >>

\* FARMING_KNOWLEDGE["pests"]["te"]: the pests of language te, in insertion order
FARMING_KNOWLEDGE_pests_te ==
  <<
    <<
      (* "aphids" *)
      <<97,112,104,105,100,115>>,
      [
        identification |->
          <<3078,3093,3137,3122,3137,32,3118,3120,3135,3119,3137,32,3093,3134,3074,3105,3134,3122,3114,
            3144,32,3098,3135,3112,3149,3112,32,3078,3093,3137,3114,3098,3149,3098,47,3112,3122,
            3137,3114,3137,32,3093,3136,3103,3093,3134,3122,3137>>,
        treatment |->
          <<3125,3143,3114,32,3112,3138,3112,3142,32,3128,3149,3114,3149,3120,3143,32,3122,3143,3110,3134,
            32,3093,3136,3103,3093,32,3112,3134,3126,3093,32,3128,3116,3149,3116,3137,32,3125,
            3134,3105,3074,3105,3135,46,32,3122,3143,3105,3136,3116,3095,3149,3128,3149,32,3125,
            3110,3135,3122,3135,3074,3098,3074,3105,3135,46>>,
        prevention |->
          <<3118,3143,3120,3135,3095,3147,3122,3149,3105,3149,3128,3149,32,3108,3147,32,3093,3074,3114,
            3134,3112,3135,3119,3112,3149,32,3114,3149,3122,3134,3074,3103,3135,3074,3095,3149,
            44,32,3120,3142,3095,3149,3119,3137,3122,3120,3149,32,3079,3112,3149,3128,3149,3114,
            3142,3093,3149,3127,3112,3149,46>>
      ]
    >>,
    <<
      (* "whiteflies" *)
      <<119,104,105,116,101,102,108,105,101,115>>,
      [
        identification |->
          <<3078,3093,3137,3122,32,3093,3135,3074,3110,32,3098,3135,3112,3149,3112,32,3108,3142,3122,3149,
            3122,32,3086,3095,3135,3120,3143,32,3093,3136,3103,3093,3134,3122,3137>>,
        treatment |->
          <<3114,3128,3137,3114,3137,32,3077,3074,3103,3137,3093,3137,3112,3143,32,3103,3149,3120,3134,
            3114,3149,3128,3149,44,32,3125,3143,3114,32,3112,3138,3112,3142,44,32,3114,3149,
            3120,3117,3134,3125,3135,3108,32,3078,3093,3137,3122,3112,3137,32,3108,3146,3122,
            3095,3135,3074,3098,3074,3105,3135,46>>,
        prevention |->
          <<3118,3074,3098,3135,32,3095,3134,3122,3135,32,3128,3120,3149,3093,3149,3119,3137,3122,3143,
            3127,3112,3149,44,32,3112,3144,3103,3149,3120,3147,3100,3112,3149,32,3108,3147,32,
            3086,3093,3149,3093,3137,3125,32,3086,3120,3137,3125,3137,32,3125,3143,3119,3105,
            3074,32,3118,3134,3112,3074,3105,3135,46>>
      ]
    >>
  >>

\* FARMING_KNOWLEDGE: kind -> language (en = 101,110; hi = 104,105; te = 116,101) -> catalog
FARMING_KNOWLEDGE ==
  [
    diseases |-> <<
      << <<101,110>>, FARMING_KNOWLEDGE_diseases_en >>,
      << <<104,105>>, FARMING_KNOWLEDGE_diseases_hi >>,
      << <<116,101>>, FARMING_KNOWLEDGE_diseases_te >>
    >>,
    pests |-> <<
      << <<101,110>>, FARMING_KNOWLEDGE_pests_en >>,
      << <<104,105>>, FARMING_KNOWLEDGE_pests_hi >>,
      << <<116,101>>, FARMING_KNOWLEDGE_pests_te >>
    >>
  ]

\* RESPONSE_TEMPLATES["en"]
RESPONSE_TEMPLATES_en ==
  [
    greeting |->
      (* "Hello! I'm your AI farming assistant. I'll help you with your agricultural questions." *)
      <<72,101,108,108,111,33,32,73,39,109,32,121,111,117,114,32,65,73,32,102,97,114,109,105,110,103,
        32,97,115,115,105,115,116,97,110,116,46,32,73,39,108,108,32,104,101,108,112,32,121,111,
        117,32,119,105,116,104,32,121,111,117,114,32,97,103,114,105,99,117,108,116,117,114,97,
        108,32,113,117,101,115,116,105,111,110,115,46>>,
    disease_detected |->
      (* "Based on your description, this appears to be {disease}. Here's what I recommend:" *)
      <<66,97,115,101,100,32,111,110,32,121,111,117,114,32,100,101,115,99,114,105,112,116,105,111,110,
        44,32,116,104,105,115,32,97,112,112,101,97,114,115,32,116,111,32,98,101,32,123,100,105,
        115,101,97,115,101,125,46,32,72,101,114,101,39,115,32,119,104,97,116,32,73,32,114,101,
        99,111,109,109,101,110,100,58>>,
    pest_identified |->
      (* "I've identified this as a {pest} problem. Here's the treatment plan:" *)
      <<73,39,118,101,32,105,100,101,110,116,105,102,105,101,100,32,116,104,105,115,32,97,115,32,97,
        32,123,112,101,115,116,125,32,112,114,111,98,108,101,109,46,32,72,101,114,101,39,115,32,
        116,104,101,32,116,114,101,97,116,109,101,110,116,32,112,108,97,110,58>>,
    general_advice |->
      (* "Here's some general advice for your farming question:" *)
      <<72,101,114,101,39,115,32,115,111,109,101,32,103,101,110,101,114,97,108,32,97,100,118,105,99,
        101,32,102,111,114,32,121,111,117,114,32,102,97,114,109,105,110,103,32,113,117,101,115,
        116,105,111,110,58>>,
    need_more_info |->
      (* "To provide better assistance, I need more details about:" *)
      <<84,111,32,112,114,111,118,105,100,101,32,98,101,116,116,101,114,32,97,115,115,105,115,116,97,
        110,99,101,44,32,73,32,110,101,101,100,32,109,111,114,101,32,100,101,116,97,105,108,115,
        32,97,98,111,117,116,58>>,
    confidence_low |->
      (* "I'm not entirely certain about this diagnosis. I recommend consulting with a local agricultural expert." *)
      <<73,39,109,32,110,111,116,32,101,110,116,105,114,101,108,121,32,99,101,114,116,97,105,110,32,
        97,98,111,117,116,32,116,104,105,115,32,100,105,97,103,110,111,115,105,115,46,32,73,32,
        114,101,99,111,109,109,101,110,100,32,99,111,110,115,117,108,116,105,110,103,32,119,105,
        116,104,32,97,32,108,111,99,97,108,32,97,103,114,105,99,117,108,116,117,114,97,108,32,
        101,120,112,101,114,116,46>>,
    follow_up |->
      (* "Please monitor the situation and update me in {days} days." *)
      <<80,108,101,97,115,101,32,109,111,110,105,116,111,114,32,116,104,101,32,115,105,116,117,97,116,
        105,111,110,32,97,110,100,32,117,112,100,97,116,101,32,109,101,32,105,110,32,123,100,97,
        121,115,125,32,100,97,121,115,46>>
  ]

\* RESPONSE_TEMPLATES["hi"]
RESPONSE_TEMPLATES_hi ==
  [
    greeting |->
      <<2344,2350,2360,2381,2340,2375,33,32,2350,2376,2306,32,2310,2346,2325,2366,32,65,73,32,2325,
        2371,2359,2367,32,2360,2361,2366,2351,2325,32,2361,2370,2306,2404,32,2350,2376,2306,32,
        2310,2346,2325,2375,32,2325,2371,2359,2367,32,2346,2381,2352,2358,2381,2344,2379,2306,
        32,2350,2375,2306,32,2350,2342,2342,32,2325,2352,2370,2306,2327,2366,2404>>,
    disease_detected |->
      <<2310,2346,2325,2375,32,2357,2367,2357,2352,2339,32,2325,2375,32,2310,2343,2366,2352,32,2346,
        2352,44,32,2351,2361,32,123,100,105,115,101,97,115,101,125,32,2354,2327,2340,2366,32,
        2361,2376,2404,32,2351,2361,2366,2306,32,2350,2375,2352,2368,32,2360,2367,2347,2366,
        2352,2367,2358,32,2361,2376,58>>,
    pest_identified |->
      <<2350,2376,2306,2344,2375,32,2311,2360,2375,32,123,112,101,115,116,125,32,2360,2350,2360,2381,
        2351,2366,32,2325,2375,32,2352,2370,2346,32,2350,2375,2306,32,2346,2361,2330,2366,2344,
        2366,32,2361,2376,2404,32,2351,2361,2366,2306,32,2313,2346,2330,2366,2352,32,2351,2379,
        2332,2344,2366,32,2361,2376,58>>,
    general_advice |->
      <<2310,2346,2325,2375,32,2325,2371,2359,2367,32,2346,2381,2352,2358,2381,2344,32,2325,2375,32,
        2354,2367,2319,32,2351,2361,2366,2306,32,2325,2369,2331,32,2360,2366,2350,2366,2344,
        2381,2351,32,2360,2354,2366,2361,32,2361,2376,58>>,
    need_more_info |->
      <<2348,2375,2361,2340,2352,32,2360,2361,2366,2351,2340,2366,32,2346,2381,2352,2342,2366,2344,32,
        2325,2352,2344,2375,32,2325,2375,32,2354,2367,2319,44,32,2350,2369,2333,2375,32,2311,
        2360,2325,2375,32,2348,2366,2352,2375,32,2350,2375,2306,32,2324,2352,32,2357,2367,2357,
        2352,2339,32,2330,2366,2361,2367,2319,58>>,
    confidence_low |->
      <<2350,2369,2333,2375,32,2311,2360,32,2344,2367,2342,2366,2344,32,2325,2375,32,2348,2366,2352,
        2375,32,2350,2375,2306,32,2346,2370,2352,2368,32,2340,2352,2361,32,2360,2375,32,2351,
        2325,2368,2344,32,2344,2361,2368,2306,32,2361,2376,2404,32,2350,2376,2306,32,2360,2381,
        2341,2366,2344,2368,2351,32,2325,2371,2359,2367,32,2357,2367,2358,2375,2359,2332,2381,
        2334,32,2360,2375,32,2360,2354,2366,2361,32,2354,2375,2344,2375,32,2325,2368,32,2360,
        2354,2366,2361,32,2342,2375,2340,2366,32,2361,2370,2306,2404>>,
    follow_up |->
      <<2325,2371,2346,2351,2366,32,2360,2381,2341,2367,2340,2367,32,2325,2368,32,2344,2367,2327,2352,
        2366,2344,2368,32,2325,2352,2375,2306,32,2324,2352,32,123,100,97,121,115,125,32,2342,
        2367,2344,2379,2306,32,2350,2375,2306,32,2350,2369,2333,2375,32,2309,2346,2337,2375,
        2335,32,2325,2352,2375,2306,2404>>
  ]

\* RESPONSE_TEMPLATES["te"]
RESPONSE_TEMPLATES_te ==
  [
    greeting |->
      <<3112,3118,3128,3149,3093,3134,3120,3074,33,32,3112,3143,3112,3137,32,3118,3136,32,65,73,32,
        3125,3149,3119,3125,3128,3134,3119,32,3128,3129,3134,3119,3093,3137,3105,3112,3137,46,
        32,3118,3136,32,3125,3149,3119,3125,3128,3134,3119,32,3114,3149,3120,3126,3149,3112,
        3122,3122,3147,32,3112,3143,3112,3137,32,3128,3129,3134,3119,3074,32,3098,3143,3128,
        3149,3108,3134,3112,3137,46>>,
    disease_detected |->
      <<3118,3136,32,3125,3135,3125,3120,3107,32,3078,3111,3134,3120,3074,3095,3134,44,32,3079,3110,
        3135,32,123,100,105,115,101,97,115,101,125,32,3095,3134,32,3093,3112,3135,3114,3135,
        3128,3149,3108,3147,3074,3110,3135,46,32,3079,3093,3149,3093,3105,32,3112,3134,32,3128,
        3135,3115,3134,3120,3149,3128,3137,58>>,
    pest_identified |->
      <<3112,3143,3112,3137,32,3110,3136,3112,3135,3112,3135,32,123,112,101,115,116,125,32,3128,3118,
        3128,3149,3119,3095,3134,32,3095,3137,3120,3149,3108,3135,3074,3098,3134,3112,3137,46,
        32,3079,3093,3149,3093,3105,32,3098,3135,3093,3135,3108,3149,3128,32,3114,3149,3120,
        3107,3134,3123,3135,3093,58>>,
    general_advice |->
      <<3118,3136,32,3125,3149,3119,3125,3128,3134,3119,32,3114,3149,3120,3126,3149,3112,3093,3137,32,
        3079,3093,3149,3093,3105,32,3093,3146,3074,3108,32,3128,3134,3111,3134,3120,3107,32,
        3128,3122,3129,3134,58>>,
    need_more_info |->
      <<3118,3142,3120,3137,3095,3144,3112,32,3128,3129,3134,3119,3134,3112,3149,3112,3135,32,3077,
        3074,3110,3135,3074,3098,3105,3134,3112,3135,3093,3135,44,32,3110,3136,3112,3135,32,
        3095,3137,3120,3135,3074,3098,3135,32,3118,3120,3135,3112,3149,3112,3135,32,3125,3135,
        3125,3120,3134,3122,3137,32,3077,3125,3128,3120,3074,58>>,
    confidence_low |->
      <<3080,32,3112,3135,3120,3149,3111,3134,3120,3107,32,3095,3137,3120,3135,3074,3098,3135,32,3112,
        3134,3093,3137,32,3114,3138,3120,3149,3108,3135,32,3112,3135,3126,3149,3098,3119,3108,
        32,3122,3143,3110,3137,46,32,3128,3149,3109,3134,3112,3135,3093,32,3125,3149,3119,3125,
        3128,3134,3119,32,3112,3135,3114,3137,3107,3137,3105,3135,3112,3135,32,3128,3074,3114,
        3149,3120,3110,3135,3074,3098,3134,3122,3112,3135,32,3112,3143,3112,3137,32,3128,3135,
        3115,3134,3120,3149,3128,3137,32,3098,3143,3128,3149,3108,3137,3112,3149,3112,3134,3112,
        3137,46>>,
    follow_up |->
      <<3110,3119,3098,3143,3128,3135,32,3114,3120,3135,3128,3149,3109,3135,3108,3135,3112,3135,32,
        3114,3120,3149,3119,3125,3143,3093,3149,3127,3135,3074,3098,3074,3105,3135,32,3118,3120,
        3135,3119,3137,32,123,100,97,121,115,125,32,3120,3147,3100,3137,3122,3149,3122,3147,32,
        3112,3134,3093,3137,32,3077,3114,3149,8204,3105,3143,3103,3149,32,3098,3143,3119,3074,
        3105,3135,2404>>
  ]

\* RESPONSE_TEMPLATES: language -> template name -> text
RESPONSE_TEMPLATES ==
  <<
    << <<101,110>>, RESPONSE_TEMPLATES_en >>,
    << <<104,105>>, RESPONSE_TEMPLATES_hi >>,
    << <<116,101>>, RESPONSE_TEMPLATES_te >>
  >>

\* fallback_responses: language -> the apology sentence
fallback_responses ==
  <<
    <<
      (* "en" *)
      <<101,110>>,
      (* "I'm sorry, I encountered an error processing your query. Please try rephrasing your question or contact support." *)
      <<73,39,109,32,115,111,114,114,121,44,32,73,32,101,110,99,111,117,110,116,101,114,101,100,32,97,
        110,32,101,114,114,111,114,32,112,114,111,99,101,115,115,105,110,103,32,121,111,117,114,
        32,113,117,101,114,121,46,32,80,108,101,97,115,101,32,116,114,121,32,114,101,112,104,
        114,97,115,105,110,103,32,121,111,117,114,32,113,117,101,115,116,105,111,110,32,111,114,
        32,99,111,110,116,97,99,116,32,115,117,112,112,111,114,116,46>>
    >>,
    <<
      (* "hi" *)
      <<104,105>>,
      <<2350,2369,2333,2375,32,2326,2375,2342,32,2361,2376,44,32,2310,2346,2325,2368,32,2360,2350,
        2360,2381,2351,2366,32,2325,2379,32,2360,2306,2360,2366,2343,2367,2340,32,2325,2352,
        2344,2375,32,2350,2375,2306,32,2350,2369,2333,2375,32,2319,2325,32,2340,2381,2352,2369,
        2335,2367,32,2325,2366,32,2360,2366,2350,2344,2366,32,2325,2352,2344,2366,32,2346,2337,
        2364,2366,2404,32,2325,2371,2346,2351,2366,32,2309,2346,2344,2375,32,2346,2381,2352,
        2358,2381,2344,32,2325,2379,32,2342,2379,2348,2366,2352,2366,32,2354,2367,2326,2375,
        2306,32,2351,2366,32,2360,2361,2366,2351,2340,2366,32,2360,2375,32,2360,2306,2346,2352,
        2381,2325,32,2325,2352,2375,2306,2404>>
    >>,
    <<
      (* "te" *)
      <<116,101>>,
      <<3093,3149,3127,3118,3135,3074,3098,3074,3105,3135,44,32,3118,3136,32,3114,3149,3120,3126,3149,
        3112,3112,3137,32,3114,3149,3120,3134,3128,3142,3128,3149,32,3098,3143,3119,3105,3074,
        3122,3147,32,3112,3134,3093,3137,32,3122,3147,3114,3074,32,3086,3110,3137,3120,3144,
        3074,3110,3135,46,32,3110,3119,3098,3143,3128,3135,32,3118,3136,32,3114,3149,3120,3126,
        3149,3112,3112,3137,32,3118,3123,3149,3122,3136,32,3120,3134,3119,3074,3105,3135,32,
        3122,3143,3110,3134,32,3128,3129,3134,3119,3134,3112,3149,3112,3135,32,3128,3074,3114,
        3149,3120,3110,3135,3074,3098,3074,3105,3135,46>>
    >>
  >>

\* analyze_image.analysis_results["en"]
analysis_results_en ==
  [
    description |->
      (* "Image shows healthy green vegetation with some yellowing on lower leaves, possibly indicating nutrient deficiency or natural aging." *)
      <<73,109,97,103,101,32,115,104,111,119,115,32,104,101,97,108,116,104,121,32,103,114,101,101,110,
        32,118,101,103,101,116,97,116,105,111,110,32,119,105,116,104,32,115,111,109,101,32,121,
        101,108,108,111,119,105,110,103,32,111,110,32,108,111,119,101,114,32,108,101,97,118,101,
        115,44,32,112,111,115,115,105,98,108,121,32,105,110,100,105,99,97,116,105,110,103,32,
        110,117,116,114,105,101,110,116,32,100,101,102,105,99,105,101,110,99,121,32,111,114,32,
        110,97,116,117,114,97,108,32,97,103,105,110,103,46>>,
    recommendations |->
      (* "Consider soil testing for nutrient levels. Ensure adequate watering and check for signs of pest damage." *)
      <<67,111,110,115,105,100,101,114,32,115,111,105,108,32,116,101,115,116,105,110,103,32,102,111,
        114,32,110,117,116,114,105,101,110,116,32,108,101,118,101,108,115,46,32,69,110,115,117,
        114,101,32,97,100,101,113,117,97,116,101,32,119,97,116,101,114,105,110,103,32,97,110,
        100,32,99,104,101,99,107,32,102,111,114,32,115,105,103,110,115,32,111,102,32,112,101,
        115,116,32,100,97,109,97,103,101,46>>,
    detected_issues |->
      <<
        (* "leaf_yellowing" *)
        <<108,101,97,102,95,121,101,108,108,111,119,105,110,103>>,
        (* "possible_nutrient_deficiency" *)
        <<112,111,115,115,105,98,108,101,95,110,117,116,114,105,101,110,116,95,100,101,102,105,99,105,
          101,110,99,121>>
      >>,
    confidence |-> 75
  ]

\* analyze_image.analysis_results["hi"]
analysis_results_hi ==
  [
    description |->
      <<2331,2357,2367,32,2360,2381,2357,2360,2381,2341,32,2361,2352,2368,32,2357,2344,2360,2381,2346,
        2340,2367,32,2342,2367,2326,2366,2340,2368,32,2361,2376,32,2332,2367,2360,2350,2375,
        2306,32,2344,2367,2330,2354,2368,32,2346,2340,2381,2340,2367,2351,2379,2306,32,2346,
        2352,32,2325,2369,2331,32,2346,2368,2354,2366,2346,2344,32,2361,2376,44,32,2360,2306,
        2349,2357,2340,2307,32,2346,2379,2359,2325,32,2340,2340,2381,2357,2379,2306,32,2325,
        2368,32,2325,2350,2368,32,2351,2366,32,2346,2381,2352,2366,2325,2371,2340,2367,2325,32,
        2313,2350,2381,2352,32,2348,2338,2364,2344,2375,32,2325,2366,32,2360,2306,2325,2375,
        2340,32,2361,2376,2404>>,
    recommendations |->
      <<2346,2379,2359,2325,32,2340,2340,2381,2357,2379,2306,32,2325,2375,32,2360,2381,2340,2352,32,
        2325,2375,32,2354,2367,2319,32,2350,2367,2335,2381,2335,2368,32,2346,2352,2368,2325,
        2381,2359,2339,32,2346,2352,32,2357,2367,2330,2366,2352,32,2325,2352,2375,2306,2404,32,
        2346,2352,2381,2351,2366,2346,2381,2340,32,2346,2366,2344,2368,32,2360,2369,2344,2367,
        2358,2381,2330,2367,2340,32,2325,2352,2375,2306,32,2324,2352,32,2325,2368,2335,32,2325,
        2381,2359,2340,2367,32,2325,2375,32,2360,2306,2325,2375,2340,2379,2306,32,2325,2368,32,
        2332,2366,2306,2330,32,2325,2352,2375,2306,2404>>,
    detected_issues |->
      <<
        <<2346,2340,2381,2340,2368,32,2346,2368,2354,2366,2346,2344>>,
        <<2360,2306,2349,2366,2357,2367,2340,32,2346,2379,2359,2325,32,2325,2350,2368>>
      >>,
    confidence |-> 75
  ]

\* analyze_image.analysis_results["te"]
analysis_results_te ==
  [
    description |->
      <<3098,3135,3108,3149,3120,3074,32,3078,3120,3147,3095,3149,3119,3093,3120,3118,3144,3112,32,
        3078,3093,3137,3114,3098,3149,3098,32,3125,3139,3093,3149,3127,3128,3074,3114,3110,3112,
        3137,32,3098,3138,3114,3135,3128,3149,3108,3137,3074,3110,3135,44,32,3110,3135,3095,
        3137,3125,32,3078,3093,3137,3122,3114,3144,32,3093,3146,3074,3108,32,3114,3128,3137,
        3114,3137,32,3120,3074,3095,3137,32,3081,3074,3110,3135,44,32,3116,3129,3137,3126,3134,
        32,3114,3147,3127,3093,32,3122,3147,3114,3074,32,3122,3143,3110,3134,32,3128,3129,3100,
        32,3125,3139,3110,3149,3111,3134,3114,3149,3119,3134,3112,3149,3112,3135,32,3128,3138,
        3098,3135,3128,3149,3108,3137,3074,3110,3135,46>>,
    recommendations |->
      <<3114,3147,3127,3093,32,3128,3149,3109,3134,3119,3135,3122,32,3093,3147,3128,3074,32,3118,3103,
        3149,3103,3135,32,3114,3120,3136,3093,3149,3127,3112,3137,32,3114,3120,3135,3095,3107,
        3135,3074,3098,3074,3105,3135,46,32,3108,3095,3135,3112,32,3112,3136,3120,3137,32,3077,
        3074,3110,3135,3074,3098,3105,3134,3112,3149,3112,3135,32,3112,3135,3120,3149,3111,3134,
        3120,3135,3074,3098,3074,3105,3135,32,3118,3120,3135,3119,3137,32,3093,3136,3103,3093,
        3134,3122,32,3112,3127,3149,3103,3074,32,3119,3146,3093,3149,3093,32,3128,3074,3093,
        3143,3108,3134,3122,3112,3137,32,3108,3112,3135,3094,3136,32,3098,3143,3119,3074,3105,
        3135,46>>,
    detected_issues |->
      <<
        <<3078,3093,3137,32,3114,3128,3137,3114,3137,32,3120,3074,3095,3137>>,
        <<3128,3074,3117,3134,3125,3149,3119,32,3114,3147,3127,3093,32,3122,3147,3114,3074>>
      >>,
    confidence |-> 75
  ]

\* analysis_results: language -> the placeholder analysis (confidence in hundredths)
analysis_results ==
  <<
    << <<101,110>>, analysis_results_en >>,
    << <<104,105>>, analysis_results_hi >>,
    << <<116,101>>, analysis_results_te >>
  >>

\* translations: English text -> language -> translated text
translations ==
  <<
    <<
      (* "Treatment" *)
      <<84,114,101,97,116,109,101,110,116>>,
      <<
        <<
          (* "hi" *)
          <<104,105>>,
          <<2313,2346,2330,2366,2352>>
        >>,
        <<
          (* "te" *)
          <<116,101>>,
          <<3098,3135,3093,3135,3108,3149,3128>>
        >>
      >>
    >>,
    <<
      (* "Prevention" *)
      <<80,114,101,118,101,110,116,105,111,110>>,
      <<
        <<
          (* "hi" *)
          <<104,105>>,
          <<2348,2330,2366,2357>>
        >>,
        <<
          (* "te" *)
          <<116,101>>,
          <<3112,3135,3125,3134,3120,3107>>
        >>
      >>
    >>,
    <<
      (* "Identification" *)
      <<73,100,101,110,116,105,102,105,99,97,116,105,111,110>>,
      <<
        <<
          (* "hi" *)
          <<104,105>>,
          <<2346,2361,2330,2366,2344>>
        >>,
        <<
          (* "te" *)
          <<116,101>>,
          <<3095,3137,3120,3149,3108,3135,3074,3114,3137>>
        >>
      >>
    >>,
    <<
      (* "Image Analysis" *)
      <<73,109,97,103,101,32,65,110,97,108,121,115,105,115>>,
      <<
        <<
          (* "hi" *)
          <<104,105>>,
          <<2331,2357,2367,32,2357,2367,2358,2381,2354,2375,2359,2339>>
        >>,
        <<
          (* "te" *)
          <<116,101>>,
          <<3098,3135,3108,3149,3120,32,3125,3135,3126,3149,3122,3143,3127,3107>>
        >>
      >>
    >>,
    <<
      (* "Recommendations" *)
      <<82,101,99,111,109,109,101,110,100,97,116,105,111,110,115>>,
      <<
        <<
          (* "hi" *)
          <<104,105>>,
          <<2360,2367,2347,2366,2352,2367,2358,2375,2306>>
        >>,
        <<
          (* "te" *)
          <<116,101>>,
          <<3128,3135,3115,3134,3120,3149,3128,3137,3122,3137>>
        >>
      >>
    >>,
    <<
      (* "Apply recommended treatment" *)
      <<65,112,112,108,121,32,114,101,99,111,109,109,101,110,100,101,100,32,116,114,101,97,116,109,
        101,110,116>>,
      <<
        <<
          (* "hi" *)
          <<104,105>>,
          <<2309,2344,2369,2358,2306,2360,2367,2340,32,2313,2346,2330,2366,2352,32,2354,2366,2327,2370,32,
            2325,2352,2375,2306>>
        >>,
        <<
          (* "te" *)
          <<116,101>>,
          <<3128,3135,3115,3134,3120,3149,3128,3137,32,3098,3143,3119,3116,3105,3135,3112,32,3098,3135,
            3093,3135,3108,3149,3128,3112,3137,32,3125,3120,3149,3108,3135,3074,3114,3100,3143,
            3119,3074,3105,3135>>
        >>
      >>
    >>,
    <<
      (* "Monitor progress daily" *)
      <<77,111,110,105,116,111,114,32,112,114,111,103,114,101,115,115,32,100,97,105,108,121>>,
      <<
        <<
          (* "hi" *)
          <<104,105>>,
          <<2342,2376,2344,2367,2325,32,2346,2381,2352,2327,2340,2367,32,2325,2368,32,2344,2367,2327,2352,
            2366,2344,2368,32,2325,2352,2375,2306>>
        >>,
        <<
          (* "te" *)
          <<116,101>>,
          <<3120,3147,3100,3137,3125,3134,3120,3136,32,3114,3137,3120,3147,3095,3108,3135,3112,3135,32,
            3114,3120,3149,3119,3125,3143,3093,3149,3127,3135,3074,3098,3074,3105,3135>>
        >>
      >>
    >>,
    <<
      (* "Remove affected plant parts" *)
      <<82,101,109,111,118,101,32,97,102,102,101,99,116,101,100,32,112,108,97,110,116,32,112,97,114,
        116,115>>,
      <<
        <<
          (* "hi" *)
          <<104,105>>,
          <<2346,2381,2352,2349,2366,2357,2367,2340,32,2346,2380,2343,2375,32,2325,2375,32,2361,2367,2360,
            2381,2360,2379,2306,32,2325,2379,32,2361,2335,2366,2319,2306>>
        >>,
        <<
          (* "te" *)
          <<116,101>>,
          <<3114,3149,3120,3117,3134,3125,3135,3108,32,3118,3146,3093,3149,3093,32,3117,3134,3095,3134,
            3122,3112,3137,32,3108,3146,3122,3095,3135,3074,3098,3074,3105,3135>>
        >>
      >>
    >>,
    <<
      (* "Apply pest control measures" *)
      <<65,112,112,108,121,32,112,101,115,116,32,99,111,110,116,114,111,108,32,109,101,97,115,117,114,
        101,115>>,
      <<
        <<
          (* "hi" *)
          <<104,105>>,
          <<2325,2368,2335,32,2344,2367,2351,2306,2340,2381,2352,2339,32,2313,2346,2366,2351,32,2354,2366,
            2327,2370,32,2325,2352,2375,2306>>
        >>,
        <<
          (* "te" *)
          <<116,101>>,
          <<3093,3136,3103,3093,3134,3122,32,3112,3135,3119,3074,3108,3149,3120,3107,32,3098,3120,3149,
            3119,3122,3112,3137,32,3125,3120,3149,3108,3135,3074,3114,3100,3143,3119,3074,3105,
            3135>>
        >>
      >>
    >>,
    <<
      (* "Set up monitoring traps" *)
      <<83,101,116,32,117,112,32,109,111,110,105,116,111,114,105,110,103,32,116,114,97,112,115>>,
      <<
        <<
          (* "hi" *)
          <<104,105>>,
          <<2344,2367,2327,2352,2366,2344,2368,32,2332,2366,2354,32,2360,2381,2341,2366,2346,2367,2340,32,
            2325,2352,2375,2306>>
        >>,
        <<
          (* "te" *)
          <<116,101>>,
          <<3114,3120,3149,3119,3125,3143,3093,3149,3127,3107,32,3103,3149,3120,3134,3114,3149,3122,3112,
            3137,32,3087,3120,3149,3114,3134,3108,3137,32,3098,3143,3119,3074,3105,3135>>
        >>
      >>
    >>,
    <<
      (* "Check plants regularly" *)
      <<67,104,101,99,107,32,112,108,97,110,116,115,32,114,101,103,117,108,97,114,108,121>>,
      <<
        <<
          (* "hi" *)
          <<104,105>>,
          <<2344,2367,2351,2350,2367,2340,32,2352,2370,2346,32,2360,2375,32,2346,2380,2343,2379,2306,32,
            2325,2368,32,2332,2366,2306,2330,32,2325,2352,2375,2306>>
        >>,
        <<
          (* "te" *)
          <<116,101>>,
          <<3118,3146,3093,3149,3093,3122,3112,3137,32,3093,3149,3120,3118,3074,32,3108,3114,3149,3114,
            3093,3137,3074,3105,3134,32,3108,3112,3135,3094,3136,32,3098,3143,3119,3074,3105,
            3135>>
        >>
      >>
    >>
  >>

\* _get_crop_specific_advice.crop_advice["en"]
crop_advice_en ==
  <<
    <<
      (* "tomato" *)
      <<116,111,109,97,116,111>>,
      (* "For tomatoes, ensure consistent watering and support with stakes. Watch for blight and hornworms." *)
      <<70,111,114,32,116,111,109,97,116,111,101,115,44,32,101,110,115,117,114,101,32,99,111,110,115,
        105,115,116,101,110,116,32,119,97,116,101,114,105,110,103,32,97,110,100,32,115,117,112,
        112,111,114,116,32,119,105,116,104,32,115,116,97,107,101,115,46,32,87,97,116,99,104,32,
        102,111,114,32,98,108,105,103,104,116,32,97,110,100,32,104,111,114,110,119,111,114,109,
        115,46>>
    >>,
    <<
      (* "wheat" *)
      <<119,104,101,97,116>>,
      (* "Wheat requires good drainage and regular fertilization. Monitor for rust and aphids." *)
      <<87,104,101,97,116,32,114,101,113,117,105,114,101,115,32,103,111,111,100,32,100,114,97,105,110,
        97,103,101,32,97,110,100,32,114,101,103,117,108,97,114,32,102,101,114,116,105,108,105,
        122,97,116,105,111,110,46,32,77,111,110,105,116,111,114,32,102,111,114,32,114,117,115,
        116,32,97,110,100,32,97,112,104,105,100,115,46>>
    >>,
    <<
      (* "rice" *)
      <<114,105,99,101>>,
      (* "Rice needs consistent water levels and good soil preparation. Watch for blast disease." *)
      <<82,105,99,101,32,110,101,101,100,115,32,99,111,110,115,105,115,116,101,110,116,32,119,97,116,
        101,114,32,108,101,118,101,108,115,32,97,110,100,32,103,111,111,100,32,115,111,105,108,
        32,112,114,101,112,97,114,97,116,105,111,110,46,32,87,97,116,99,104,32,102,111,114,32,
        98,108,97,115,116,32,100,105,115,101,97,115,101,46>>
    >>,
    <<
      (* "cotton" *)
      <<99,111,116,116,111,110>>,
      (* "Cotton requires warm weather and careful pest management, especially for bollworms." *)
      <<67,111,116,116,111,110,32,114,101,113,117,105,114,101,115,32,119,97,114,109,32,119,101,97,116,
        104,101,114,32,97,110,100,32,99,97,114,101,102,117,108,32,112,101,115,116,32,109,97,110,
        97,103,101,109,101,110,116,44,32,101,115,112,101,99,105,97,108,108,121,32,102,111,114,
        32,98,111,108,108,119,111,114,109,115,46>>
    >>
  >>

\* _get_crop_specific_advice.crop_advice["hi"]
crop_advice_hi ==
  <<
    <<
      (* "tomato" *)
      <<116,111,109,97,116,111>>,
      <<2335,2350,2366,2335,2352,32,2325,2375,32,2354,2367,2319,44,32,2354,2327,2366,2340,2366,2352,
        32,2346,2366,2344,2368,32,2342,2375,2344,2366,32,2324,2352,32,2342,2366,2306,2357,32,
        2325,2375,32,2360,2366,2341,32,2360,2361,2366,2352,2366,32,2360,2369,2344,2367,2358,
        2381,2330,2367,2340,32,2325,2352,2375,2306,2404,32,2348,2381,2354,2366,2311,2335,32,
        2324,2352,32,2361,2377,2352,2381,2344,2357,2377,2352,2381,2350,32,2346,2352,32,2344,
        2332,2352,32,2352,2326,2375,2306,2404>>
    >>,
    <<
      (* "wheat" *)
      <<119,104,101,97,116>>,
      <<2327,2375,2361,2370,2306,32,2325,2379,32,2309,2330,2381,2331,2368,32,2332,2354,32,2344,2367,
        2325,2366,2360,2368,32,2324,2352,32,2344,2367,2351,2350,2367,2340,32,2313,2352,2381,
        2357,2352,2368,2325,2352,2339,32,2325,2368,32,2310,2357,2358,2381,2351,2325,2340,2366,
        32,2361,2379,2340,2368,32,2361,2376,2404,32,2332,2306,2327,32,2324,2352,32,2319,2347,
        2367,2337,2381,2360,32,2325,2375,32,2354,2367,2319,32,2344,2367,2327,2352,2366,2344,
        2368,32,2325,2352,2375,2306,2404>>
    >>,
    <<
      (* "rice" *)
      <<114,105,99,101>>,
      <<2330,2366,2357,2354,32,2325,2379,32,2354,2327,2366,2340,2366,2352,32,2346,2366,2344,2368,32,
        2325,2375,32,2360,2381,2340,2352,32,2324,2352,32,2309,2330,2381,2331,2368,32,2350,2367,
        2335,2381,2335,2368,32,2325,2368,32,2340,2376,2351,2366,2352,2368,32,2325,2368,32,2310,
        2357,2358,2381,2351,2325,2340,2366,32,2361,2379,2340,2368,32,2361,2376,2404,32,2348,
        2381,2354,2366,2360,2381,2335,32,2352,2379,2327,32,2346,2352,32,2344,2332,2352,32,2352,
        2326,2375,2306,2404>>
    >>,
    <<
      (* "cotton" *)
      <<99,111,116,116,111,110>>,
      <<2325,2346,2366,2360,32,2325,2379,32,2327,2352,2381,2350,32,2350,2380,2360,2350,32,2324,2352,
        32,2360,2366,2357,2343,2366,2344,32,2325,2368,2335,32,2346,2381,2352,2348,2306,2343,
        2344,32,2325,2368,32,2310,2357,2358,2381,2351,2325,2340,2366,32,2361,2379,2340,2368,32,
        2361,2376,44,32,2357,2367,2358,2375,2359,32,2352,2370,2346,32,2360,2375,32,2348,2377,
        2354,2357,2377,2352,2381,2350,32,2325,2375,32,2354,2367,2319,2404>>
    >>
  >>

\* _get_crop_specific_advice.crop_advice["te"]
crop_advice_te ==
  <<
    <<
      (* "tomato" *)
      <<116,111,109,97,116,111>>,
      <<3103,3118,3134,3103,3134,3122,32,3093,3147,3128,3074,44,32,3128,3149,3109,3135,3120,3118,3144,
        3112,32,3112,3136,3120,3137,32,3077,3074,3110,3135,3074,3098,3105,3074,32,3118,3120,
        3135,3119,3137,32,3093,3146,3103,3149,3122,3108,3147,32,3118,3110,3149,3110,3108,3137,
        32,3077,3074,3110,3135,3074,3098,3105,3134,3112,3149,3112,3135,32,3112,3135,3120,3149,
        3111,3134,3120,3135,3074,3098,3074,3105,3135,46,32,3116,3149,3122,3144,3103,3149,32,
        3118,3120,3135,3119,3137,32,3129,3134,3120,3149,3112,3149,8204,3125,3134,3120,3149,3118,
        3149,8204,3122,3112,3137,32,3095,3118,3112,3135,3074,3098,3074,3105,3135,46>>
    >>,
    <<
      (* "wheat" *)
      <<119,104,101,97,116>>,
      <<3095,3147,3111,3137,3118,3122,3093,3137,32,3118,3074,3098,3135,32,3105,3149,3120,3144,3112,
        3143,3100,3136,32,3118,3120,3135,3119,3137,32,3093,3149,3120,3118,3074,32,3108,3114,
        3149,3114,3093,3137,3074,3105,3134,32,3086,3120,3137,3125,3137,3122,3137,32,3077,3125,
        3128,3120,3074,46,32,3120,3128,3149,3103,3149,32,3118,3120,3135,3119,3137,32,3077,3115,
        3135,3105,3149,3128,3149,32,3093,3147,3128,3074,32,3114,3120,3149,3119,3125,3143,3093,
        3149,3127,3135,3074,3098,3074,3105,3135,46>>
    >>,
    <<
      (* "rice" *)
      <<114,105,99,101>>,
      <<3116,3135,3119,3149,3119,3134,3112,3135,3093,3135,32,3128,3149,3109,3135,3120,3118,3144,3112,
        32,3112,3136,3103,3135,32,3128,3149,3109,3134,3119,3135,3122,3137,32,3118,3120,3135,
        3119,3137,32,3118,3074,3098,3135,32,3112,3143,3122,32,3108,3119,3134,3120,3136,32,3077,
        3125,3128,3120,3074,46,32,3116,3149,3122,3134,3128,3149,3103,3149,32,3125,3149,3119,
        3134,3111,3135,3112,3135,32,3095,3118,3112,3135,3074,3098,3074,3105,3135,46>>
    >>,
    <<
      (* "cotton" *)
      <<99,111,116,116,111,110>>,
      <<3114,3108,3149,3108,3135,3093,3135,32,3125,3142,3098,3149,3098,3112,3135,32,3125,3134,3108,
        3134,3125,3120,3107,3074,32,3118,3120,3135,3119,3137,32,3100,3134,3095,3149,3120,3108,
        3149,3108,3095,3134,32,3114,3142,3128,3149,3103,3149,32,3118,3143,3112,3143,3100,3149,
        8204,3118,3142,3074,3103,3149,32,3077,3125,3128,3120,3074,44,32,3118,3137,3094,3149,
        3119,3074,3095,3134,32,3116,3147,3122,3149,8204,3125,3134,3120,3149,3118,3149,8204,3122,
        32,3093,3147,3128,3074,46>>
    >>
  >>

\* crop_advice: language -> crop -> advice sentence
crop_advice ==
  <<
    << <<101,110>>, crop_advice_en >>,
    << <<104,105>>, crop_advice_hi >>,
    << <<116,101>>, crop_advice_te >>
  >>

\* _get_generic_advice.generic_advice["en"]
generic_advice_en ==
  <<
    <<
      (* "water" *)
      <<119,97,116,101,114>>,
      (* "Proper watering is crucial - water deeply but less frequently to encourage root growth." *)
      <<80,114,111,112,101,114,32,119,97,116,101,114,105,110,103,32,105,115,32,99,114,117,99,105,97,
        108,32,45,32,119,97,116,101,114,32,100,101,101,112,108,121,32,98,117,116,32,108,101,115,
        115,32,102,114,101,113,117,101,110,116,108,121,32,116,111,32,101,110,99,111,117,114,97,
        103,101,32,114,111,111,116,32,103,114,111,119,116,104,46>>
    >>,
    <<
      (* "soil" *)
      <<115,111,105,108>>,
      (* "Healthy soil is the foundation of good farming. Consider soil testing and organic amendments." *)
      <<72,101,97,108,116,104,121,32,115,111,105,108,32,105,115,32,116,104,101,32,102,111,117,110,100,
        97,116,105,111,110,32,111,102,32,103,111,111,100,32,102,97,114,109,105,110,103,46,32,67,
        111,110,115,105,100,101,114,32,115,111,105,108,32,116,101,115,116,105,110,103,32,97,110,
        100,32,111,114,103,97,110,105,99,32,97,109,101,110,100,109,101,110,116,115,46>>
    >>,
    <<
      (* "fertilizer" *)
      <<102,101,114,116,105,108,105,122,101,114>>,
      (* "Use balanced fertilizers based on soil test results. Organic options are often beneficial." *)
      <<85,115,101,32,98,97,108,97,110,99,101,100,32,102,101,114,116,105,108,105,122,101,114,115,32,
        98,97,115,101,100,32,111,110,32,115,111,105,108,32,116,101,115,116,32,114,101,115,117,
        108,116,115,46,32,79,114,103,97,110,105,99,32,111,112,116,105,111,110,115,32,97,114,101,
        32,111,102,116,101,110,32,98,101,110,101,102,105,99,105,97,108,46>>
    >>,
    <<
      (* "weather" *)
      <<119,101,97,116,104,101,114>>,
      (* "Monitor weather conditions and adjust farming practices accordingly." *)
      <<77,111,110,105,116,111,114,32,119,101,97,116,104,101,114,32,99,111,110,100,105,116,105,111,
        110,115,32,97,110,100,32,97,100,106,117,115,116,32,102,97,114,109,105,110,103,32,112,
        114,97,99,116,105,99,101,115,32,97,99,99,111,114,100,105,110,103,108,121,46>>
    >>
  >>

\* _get_generic_advice.generic_advice["hi"]
generic_advice_hi ==
  <<
    <<
      (* "water" *)
      <<119,97,116,101,114>>,
      <<2313,2330,2367,2340,32,2346,2366,2344,2368,32,2342,2375,2344,2366,32,2350,2361,2340,2381,2357,
        2346,2370,2352,2381,2339,32,2361,2376,32,45,32,2332,2337,2364,2379,2306,32,2325,2368,32,
        2357,2371,2342,2381,2343,2367,32,2325,2379,32,2346,2381,2352,2379,2340,2381,2360,2366,
        2361,2367,2340,32,2325,2352,2344,2375,32,2325,2375,32,2354,2367,2319,32,2327,2361,2352,
        2366,2312,32,2360,2375,32,2354,2375,2325,2367,2344,32,2325,2350,32,2348,2366,2352,32,
        2346,2366,2344,2368,32,2342,2375,2306,2404>>
    >>,
    <<
      (* "soil" *)
      <<115,111,105,108>>,
      <<2360,2381,2357,2360,2381,2341,32,2350,2367,2335,2381,2335,2368,32,2309,2330,2381,2331,2368,32,
        2326,2375,2340,2368,32,2325,2368,32,2344,2368,2306,2357,32,2361,2376,2404,32,2350,2367,
        2335,2381,2335,2368,32,2346,2352,2368,2325,2381,2359,2339,32,2324,2352,32,2332,2376,
        2357,2367,2325,32,2360,2306,2358,2379,2343,2344,32,2346,2352,32,2357,2367,2330,2366,
        2352,32,2325,2352,2375,2306,2404>>
    >>,
    <<
      (* "fertilizer" *)
      <<102,101,114,116,105,108,105,122,101,114>>,
      <<2350,2367,2335,2381,2335,2368,32,2346,2352,2368,2325,2381,2359,2339,32,2346,2352,2367,2339,
        2366,2350,2379,2306,32,2325,2375,32,2310,2343,2366,2352,32,2346,2352,32,2360,2306,2340,
        2369,2354,2367,2340,32,2313,2352,2381,2357,2352,2325,32,2325,2366,32,2313,2346,2351,
        2379,2327,32,2325,2352,2375,2306,2404,32,2332,2376,2357,2367,2325,32,2357,2367,2325,
        2354,2381,2346,32,2309,2325,2381,2360,2352,32,2347,2366,2351,2342,2375,2350,2306,2342,
        32,2361,2379,2340,2375,32,2361,2376,2306,2404>>
    >>,
    <<
      (* "weather" *)
      <<119,101,97,116,104,101,114>>,
      <<2350,2380,2360,2350,32,2325,2368,32,2360,2381,2341,2367,2340,2367,32,2325,2368,32,2344,2367,
        2327,2352,2366,2344,2368,32,2325,2352,2375,2306,32,2324,2352,32,2340,2342,2344,2369,
        2360,2366,2352,32,2325,2371,2359,2367,32,2346,2381,2352,2341,2366,2323,2306,32,2325,
        2379,32,2360,2350,2366,2351,2379,2332,2367,2340,32,2325,2352,2375,2306,2404>>
    >>
  >>

\* _get_generic_advice.generic_advice["te"]
generic_advice_te ==
  <<
    <<
      (* "water" *)
      <<119,97,116,101,114>>,
      <<3128,3120,3144,3112,32,3112,3136,3120,3137,32,3077,3074,3110,3135,3074,3098,3105,3074,32,3093,
        3136,3122,3093,3074,32,45,32,3125,3143,3120,3137,3122,32,3114,3142,3120,3137,3095,3137,
        3110,3122,3112,3137,32,3114,3149,3120,3147,3108,3149,3128,3129,3135,3074,3098,3105,3134,
        3112,3135,3093,3135,32,3122,3147,3108,3137,3095,3134,32,3093,3134,3112,3136,32,3108,
        3093,3149,3093,3137,3125,32,3108,3120,3098,3137,3095,3134,32,3112,3136,3120,3137,32,
        3079,3125,3149,3125,3074,3105,3135,46>>
    >>,
    <<
      (* "soil" *)
      <<115,111,105,108>>,
      <<3078,3120,3147,3095,3149,3119,3093,3120,3118,3144,3112,32,3118,3103,3149,3103,3135,32,3118,
        3074,3098,3135,32,3125,3149,3119,3125,3128,3134,3119,3134,3112,3135,3093,3135,32,3114,
        3137,3112,3134,3110,3135,46,32,3118,3103,3149,3103,3135,32,3114,3120,3136,3093,3149,
        3127,32,3118,3120,3135,3119,3137,32,3128,3143,3074,3110,3149,3120,3136,3119,32,3128,
        3125,3120,3107,3122,3112,3137,32,3114,3120,3135,3095,3107,3135,3074,3098,3074,3105,3135,
        46>>
    >>,
    <<
      (* "fertilizer" *)
      <<102,101,114,116,105,108,105,122,101,114>>,
      <<3118,3103,3149,3103,3135,32,3114,3120,3136,3093,3149,3127,32,3115,3122,3135,3108,3134,3122,32,
        3078,3111,3134,3120,3074,3095,3134,32,3128,3118,3108,3137,3122,3149,3119,32,3086,3120,
        3137,3125,3137,3122,3112,3137,32,3081,3114,3119,3147,3095,3135,3074,3098,3074,3105,3135,
        46,32,3128,3143,3074,3110,3149,3120,3136,3119,32,3086,3074,3114,3135,3093,3122,3137,32,
        3108,3120,3098,3137,3095,3134,32,3114,3149,3120,3119,3147,3100,3112,3093,3120,3074,3095,
        3134,32,3081,3074,3103,3134,3119,3135,46>>
    >>,
    <<
      (* "weather" *)
      <<119,101,97,116,104,101,114>>,
      <<3125,3134,3108,3134,3125,3120,3107,32,3114,3120,3135,3128,3149,3109,3135,3108,3137,3122,3112,
        3137,32,3114,3120,3149,3119,3125,3143,3093,3149,3127,3135,3074,3098,3074,3105,3135,32,
        3118,3120,3135,3119,3137,32,3110,3134,3112,3135,32,3114,3149,3120,3093,3134,3120,3074,
        32,3125,3149,3119,3125,3128,3134,3119,32,3114,3110,3149,3111,3108,3137,3122,3112,3137,
        32,3128,3120,3149,3110,3137,3116,3134,3103,3137,32,3098,3143,3119,3074,3105,3135,46>>
    >>
  >>

\* generic_advice: language -> topic keyword -> advice sentence, in insertion order
generic_advice ==
  <<
    << <<101,110>>, generic_advice_en >>,
    << <<104,105>>, generic_advice_hi >>,
    << <<116,101>>, generic_advice_te >>
  >>

\* default_advice: language -> sentence
default_advice ==
  <<
    <<
      (* "en" *)
      <<101,110>>,
      (* "Focus on soil health, proper irrigation, and regular monitoring for the best results." *)
      <<70,111,99,117,115,32,111,110,32,115,111,105,108,32,104,101,97,108,116,104,44,32,112,114,111,
        112,101,114,32,105,114,114,105,103,97,116,105,111,110,44,32,97,110,100,32,114,101,103,
        117,108,97,114,32,109,111,110,105,116,111,114,105,110,103,32,102,111,114,32,116,104,101,
        32,98,101,115,116,32,114,101,115,117,108,116,115,46>>
    >>,
    <<
      (* "hi" *)
      <<104,105>>,
      <<2360,2352,2381,2357,2379,2340,2381,2340,2350,32,2346,2352,2367,2339,2366,2350,2379,2306,32,
        2325,2375,32,2354,2367,2319,32,2350,2367,2335,2381,2335,2368,32,2325,2375,32,2360,2381,
        2357,2366,2360,2381,2341,2381,2351,44,32,2313,2330,2367,2340,32,2360,2367,2306,2330,
        2366,2312,32,2324,2352,32,2344,2367,2351,2350,2367,2340,32,2344,2367,2327,2352,2366,
        2344,2368,32,2346,2352,32,2343,2381,2351,2366,2344,32,2342,2375,2306,2404>>
    >>,
    <<
      (* "te" *)
      <<116,101>>,
      <<3081,3108,3149,3108,3118,32,3115,3122,3135,3108,3134,3122,32,3093,3147,3128,3074,32,3118,3103,
        3149,3103,3135,32,3078,3120,3147,3095,3149,3119,3074,44,32,3128,3120,3144,3112,32,3112,
        3136,3103,3135,3114,3134,3120,3137,3110,3122,32,3118,3120,3135,3119,3137,32,3093,3149,
        3120,3118,3074,32,3108,3114,3149,3114,3093,3137,3074,3105,3134,32,3114,3120,3149,3119,
        3125,3143,3093,3149,3127,3107,3114,3144,32,3110,3139,3127,3149,3103,3135,32,3114,3142,
        3103,3149,3103,3074,3105,3135,46>>
    >>
  >>

\* suggestions: language -> the five suggestions
suggestions ==
  <<
    <<
      (* "en" *)
      <<101,110>>,
      <<
        (* "Consider taking photos of affected areas for better diagnosis" *)
        <<67,111,110,115,105,100,101,114,32,116,97,107,105,110,103,32,112,104,111,116,111,115,32,111,
          102,32,97,102,102,101,99,116,101,100,32,97,114,101,97,115,32,102,111,114,32,98,101,
          116,116,101,114,32,100,105,97,103,110,111,115,105,115>>,
        (* "Monitor the situation for 3-5 days before taking action" *)
        <<77,111,110,105,116,111,114,32,116,104,101,32,115,105,116,117,97,116,105,111,110,32,102,111,
          114,32,51,45,53,32,100,97,121,115,32,98,101,102,111,114,101,32,116,97,107,105,110,103,
          32,97,99,116,105,111,110>>,
        (* "Consult with local agricultural extension officers" *)
        <<67,111,110,115,117,108,116,32,119,105,116,104,32,108,111,99,97,108,32,97,103,114,105,99,117,
          108,116,117,114,97,108,32,101,120,116,101,110,115,105,111,110,32,111,102,102,105,99,
          101,114,115>>,
        (* "Check soil moisture levels regularly" *)
        <<67,104,101,99,107,32,115,111,105,108,32,109,111,105,115,116,117,114,101,32,108,101,118,101,
          108,115,32,114,101,103,117,108,97,114,108,121>>,
        (* "Keep detailed records of treatments applied" *)
        <<75,101,101,112,32,100,101,116,97,105,108,101,100,32,114,101,99,111,114,100,115,32,111,102,32,
          116,114,101,97,116,109,101,110,116,115,32,97,112,112,108,105,101,100>>
      >>
    >>,
    <<
      (* "hi" *)
      <<104,105>>,
      <<
        <<2348,2375,2361,2340,2352,32,2344,2367,2342,2366,2344,32,2325,2375,32,2354,2367,2319,32,2346,
          2381,2352,2349,2366,2357,2367,2340,32,2325,2381,2359,2375,2340,2381,2352,2379,2306,32,
          2325,2368,32,2340,2360,2381,2357,2368,2352,2375,2306,32,2354,2375,2344,2375,32,2346,
          2352,32,2357,2367,2330,2366,2352,32,2325,2352,2375,2306>>,
        <<2325,2366,2352,2381,2352,2357,2366,2312,32,2325,2352,2344,2375,32,2360,2375,32,2346,2361,2354,
          2375,32,51,45,53,32,2342,2367,2344,2379,2306,32,2340,2325,32,2360,2381,2341,2367,2340,
          2367,32,2325,2368,32,2344,2367,2327,2352,2366,2344,2368,32,2325,2352,2375,2306>>,
        <<2360,2381,2341,2366,2344,2368,2351,32,2325,2371,2359,2367,32,2357,2367,2360,2381,2340,2366,
          2352,32,2309,2343,2367,2325,2366,2352,2367,2351,2379,2306,32,2360,2375,32,2360,2354,
          2366,2361,32,2354,2375,2306>>,
        <<2350,2367,2335,2381,2335,2368,32,2325,2368,32,2344,2350,2368,32,2325,2375,32,2360,2381,2340,
          2352,32,2325,2368,32,2344,2367,2351,2350,2367,2340,32,2332,2366,2306,2330,32,2325,
          2352,2375,2306>>,
        <<2354,2366,2327,2370,32,2325,2367,2319,32,2327,2319,32,2313,2346,2330,2366,2352,2379,2306,32,
          2325,2366,32,2357,2367,2360,2381,2340,2371,2340,32,2352,2367,2325,2377,2352,2381,2337,
          32,2352,2326,2375,2306>>
      >>
    >>,
    <<
      (* "te" *)
      <<116,101>>,
      <<
        <<3118,3142,3120,3137,3095,3144,3112,32,3112,3135,3120,3149,3111,3134,3120,3107,32,3093,3147,
          3128,3074,32,3114,3149,3120,3117,3134,3125,3135,3108,32,3114,3149,3120,3134,3074,3108,
          3134,3122,32,3115,3147,3103,3147,3122,3137,32,3108,3136,3119,3105,3134,3112,3149,3112,
          3135,32,3114,3120,3135,3095,3107,3135,3074,3098,3074,3105,3135>>,
        <<3098,3120,3149,3119,32,3108,3136,3128,3137,3093,3137,3112,3143,32,3118,3137,3074,3110,3137,32,
          51,45,53,32,3120,3147,3100,3137,3122,3137,32,3114,3120,3135,3128,3149,3109,3135,3108,
          3135,3112,3135,32,3114,3120,3149,3119,3125,3143,3093,3149,3127,3135,3074,3098,3074,
          3105,3135>>,
        <<3128,3149,3109,3134,3112,3135,3093,32,3125,3149,3119,3125,3128,3134,3119,32,3125,3135,3128,
          3149,3108,3120,3107,32,3077,3111,3135,3093,3134,3120,3137,3122,3108,3147,32,3128,3074,
          3114,3149,3120,3110,3135,3074,3098,3074,3105,3135>>,
        <<3118,3103,3149,3103,3135,32,3108,3143,3118,32,3128,3149,3109,3134,3119,3135,3122,3112,3137,32,
          3093,3149,3120,3118,3074,32,3108,3114,3149,3114,3093,3137,3074,3105,3134,32,3108,3112,
          3135,3094,3136,32,3098,3143,3119,3074,3105,3135>>,
        <<3125,3120,3149,3108,3135,3074,3098,3143,32,3098,3135,3093,3135,3108,3149,3128,3122,32,3125,
          3135,3125,3120,3107,3134,3108,3149,3118,3093,32,3120,3135,3093,3134,3120,3149,3105,
          3137,3122,3112,3137,32,3081,3074,3098,3074,3105,3135>>
      >>
    >>
  >>
\* TRANSLATIONS: language -> category -> key -> template, each dict as the
\* sequence of its <<key, value>> items
TRANSLATIONS ==
  <<
    <<
      (* "en" *)
      <<101,110>>,
      <<
        <<
          (* "farmer_responses" *)
          <<102,97,114,109,101,114,95,114,101,115,112,111,110,115,101,115>>,
          <<
            <<
              (* "greeting" *)
              <<103,114,101,101,116,105,110,103>>,
              (* "Hello! I'm here to help with your farming questions." *)
              <<72,101,108,108,111,33,32,73,39,109,32,104,101,114,101,32,116,111,32,104,101,108,112,32,119,
                105,116,104,32,121,111,117,114,32,102,97,114,109,105,110,103,32,113,117,101,115,
                116,105,111,110,115,46>>
            >>,
            <<
              (* "disease_detected" *)
              <<100,105,115,101,97,115,101,95,100,101,116,101,99,116,101,100>>,
              (* "I've detected a potential {disease} in your crop. Here's what you should do:" *)
              <<73,39,118,101,32,100,101,116,101,99,116,101,100,32,97,32,112,111,116,101,110,116,105,97,108,
                32,123,100,105,115,101,97,115,101,125,32,105,110,32,121,111,117,114,32,99,114,
                111,112,46,32,72,101,114,101,39,115,32,119,104,97,116,32,121,111,117,32,115,104,
                111,117,108,100,32,100,111,58>>
            >>,
            <<
              (* "healthy_crop" *)
              <<104,101,97,108,116,104,121,95,99,114,111,112>>,
              (* "Your crop looks healthy! Keep up the good work." *)
              <<89,111,117,114,32,99,114,111,112,32,108,111,111,107,115,32,104,101,97,108,116,104,121,33,32,
                75,101,101,112,32,117,112,32,116,104,101,32,103,111,111,100,32,119,111,114,107,
                46>>
            >>,
            <<
              (* "need_more_info" *)
              <<110,101,101,100,95,109,111,114,101,95,105,110,102,111>>,
              (* "I need more information to help you better. Can you provide more details about:" *)
              <<73,32,110,101,101,100,32,109,111,114,101,32,105,110,102,111,114,109,97,116,105,111,110,32,116,
                111,32,104,101,108,112,32,121,111,117,32,98,101,116,116,101,114,46,32,67,97,110,
                32,121,111,117,32,112,114,111,118,105,100,101,32,109,111,114,101,32,100,101,116,
                97,105,108,115,32,97,98,111,117,116,58>>
            >>,
            <<
              (* "treatment_success" *)
              <<116,114,101,97,116,109,101,110,116,95,115,117,99,99,101,115,115>>,
              (* "The treatment should show results within {days} days." *)
              <<84,104,101,32,116,114,101,97,116,109,101,110,116,32,115,104,111,117,108,100,32,115,104,111,
                119,32,114,101,115,117,108,116,115,32,119,105,116,104,105,110,32,123,100,97,121,
                115,125,32,100,97,121,115,46>>
            >>,
            <<
              (* "follow_up" *)
              <<102,111,108,108,111,119,95,117,112>>,
              (* "Please check back in {days} days and let me know how it's going." *)
              <<80,108,101,97,115,101,32,99,104,101,99,107,32,98,97,99,107,32,105,110,32,123,100,97,121,115,
                125,32,100,97,121,115,32,97,110,100,32,108,101,116,32,109,101,32,107,110,111,
                119,32,104,111,119,32,105,116,39,115,32,103,111,105,110,103,46>>
            >>
          >>
        >>,
        <<
          (* "officer_templates" *)
          <<111,102,102,105,99,101,114,95,116,101,109,112,108,97,116,101,115>>,
          <<
            <<
              (* "acknowledgment" *)
              <<97,99,107,110,111,119,108,101,100,103,109,101,110,116>>,
              (* "Thank you for submitting your query. I'm reviewing it now." *)
              <<84,104,97,110,107,32,121,111,117,32,102,111,114,32,115,117,98,109,105,116,116,105,110,103,32,
                121,111,117,114,32,113,117,101,114,121,46,32,73,39,109,32,114,101,118,105,101,
                119,105,110,103,32,105,116,32,110,111,119,46>>
            >>,
            <<
              (* "request_details" *)
              <<114,101,113,117,101,115,116,95,100,101,116,97,105,108,115>>,
              (* "To provide better assistance, please provide:" *)
              <<84,111,32,112,114,111,118,105,100,101,32,98,101,116,116,101,114,32,97,115,115,105,115,116,97,
                110,99,101,44,32,112,108,101,97,115,101,32,112,114,111,118,105,100,101,58>>
            >>,
            <<
              (* "treatment_plan" *)
              <<116,114,101,97,116,109,101,110,116,95,112,108,97,110>>,
              (* "Based on your description, here's my recommended treatment plan:" *)
              <<66,97,115,101,100,32,111,110,32,121,111,117,114,32,100,101,115,99,114,105,112,116,105,111,110,
                44,32,104,101,114,101,39,115,32,109,121,32,114,101,99,111,109,109,101,110,100,
                101,100,32,116,114,101,97,116,109,101,110,116,32,112,108,97,110,58>>
            >>,
            <<
              (* "follow_up_required" *)
              <<102,111,108,108,111,119,95,117,112,95,114,101,113,117,105,114,101,100>>,
              (* "Please follow up in {days} days with photos of progress." *)
              <<80,108,101,97,115,101,32,102,111,108,108,111,119,32,117,112,32,105,110,32,123,100,97,121,115,
                125,32,100,97,121,115,32,119,105,116,104,32,112,104,111,116,111,115,32,111,102,
                32,112,114,111,103,114,101,115,115,46>>
            >>,
            <<
              (* "success_confirmation" *)
              <<115,117,99,99,101,115,115,95,99,111,110,102,105,114,109,97,116,105,111,110>>,
              (* "Great to hear the treatment is working! Continue with the current approach." *)
              <<71,114,101,97,116,32,116,111,32,104,101,97,114,32,116,104,101,32,116,114,101,97,116,109,101,
                110,116,32,105,115,32,119,111,114,107,105,110,103,33,32,67,111,110,116,105,110,
                117,101,32,119,105,116,104,32,116,104,101,32,99,117,114,114,101,110,116,32,97,
                112,112,114,111,97,99,104,46>>
            >>
          >>
        >>
      >>
    >>,
    <<
      (* "hi" *)
      <<104,105>>,
      <<
        <<
          (* "farmer_responses" *)
          <<102,97,114,109,101,114,95,114,101,115,112,111,110,115,101,115>>,
          <<
            <<
              (* "greeting" *)
              <<103,114,101,101,116,105,110,103>>,
              <<2344,2350,2360,2381,2340,2375,33,32,2350,2376,2306,32,2310,2346,2325,2375,32,2326,2375,2340,
                2368,32,2325,2375,32,2360,2357,2366,2354,2379,2306,32,2350,2375,2306,32,2350,
                2342,2342,32,2325,2375,32,2354,2367,2319,32,2351,2361,2366,2306,32,2361,2370,
                2306,2404>>
            >>,
            <<
              (* "disease_detected" *)
              <<100,105,115,101,97,115,101,95,100,101,116,101,99,116,101,100>>,
              <<2350,2376,2306,2344,2375,32,2310,2346,2325,2368,32,2347,2360,2354,32,2350,2375,2306,32,2360,
                2306,2349,2366,2357,2367,2340,32,123,100,105,115,101,97,115,101,125,32,2325,
                2366,32,2346,2340,2366,32,2354,2327,2366,2351,2366,32,2361,2376,2404,32,2310,
                2346,2325,2379,32,2351,2361,32,2325,2352,2344,2366,32,2330,2366,2361,2367,2319,
                58>>
            >>,
            <<
              (* "healthy_crop" *)
              <<104,101,97,108,116,104,121,95,99,114,111,112>>,
              <<2310,2346,2325,2368,32,2347,2360,2354,32,2360,2381,2357,2360,2381,2341,32,2342,2367,2326,32,
                2352,2361,2368,32,2361,2376,33,32,2309,2330,2381,2331,2366,32,2325,2366,2350,32,
                2332,2366,2352,2368,32,2352,2326,2375,2306,2404>>
            >>,
            <<
              (* "need_more_info" *)
              <<110,101,101,100,95,109,111,114,101,95,105,110,102,111>>,
              <<2310,2346,2325,2368,32,2348,2375,2361,2340,2352,32,2350,2342,2342,32,2325,2375,32,2354,2367,
                2319,32,2350,2369,2333,2375,32,2309,2343,2367,2325,32,2332,2366,2344,2325,2366,
                2352,2368,32,2330,2366,2361,2367,2319,2404,32,2325,2381,2351,2366,32,2310,2346,
                32,2311,2360,2325,2375,32,2348,2366,2352,2375,32,2350,2375,2306,32,2324,2352,32,
                2357,2367,2357,2352,2339,32,2342,2375,32,2360,2325,2340,2375,32,2361,2376,2306,
                58>>
            >>,
            <<
              (* "treatment_success" *)
              <<116,114,101,97,116,109,101,110,116,95,115,117,99,99,101,115,115>>,
              <<2313,2346,2330,2366,2352,32,123,100,97,121,115,125,32,2342,2367,2344,2379,2306,32,2325,2375,
                32,2349,2368,2340,2352,32,2346,2352,2367,2339,2366,2350,32,2342,2367,2326,2366,
                2344,2366,32,2330,2366,2361,2367,2319,2404>>
            >>,
            <<
              (* "follow_up" *)
              <<102,111,108,108,111,119,95,117,112>>,
              <<2325,2371,2346,2351,2366,32,123,100,97,121,115,125,32,2342,2367,2344,2379,2306,32,2350,2375,
                2306,32,2357,2366,2346,2360,32,2332,2366,2306,2330,32,2325,2352,2375,2306,32,
                2324,2352,32,2350,2369,2333,2375,32,2348,2340,2366,2319,2306,32,2325,2367,32,
                2325,2376,2360,2366,32,2330,2354,32,2352,2361,2366,32,2361,2376,2404>>
            >>
          >>
        >>,
        <<
          (* "officer_templates" *)
          <<111,102,102,105,99,101,114,95,116,101,109,112,108,97,116,101,115>>,
          <<
            <<
              (* "acknowledgment" *)
              <<97,99,107,110,111,119,108,101,100,103,109,101,110,116>>,
              <<2310,2346,2325,2368,32,2360,2350,2360,2381,2351,2366,32,2349,2375,2332,2344,2375,32,2325,2375,
                32,2354,2367,2319,32,2343,2344,2381,2351,2357,2366,2342,2404,32,2350,2376,2306,
                32,2311,2360,2325,2368,32,2360,2350,2368,2325,2381,2359,2366,32,2325,2352,32,
                2352,2361,2366,32,2361,2370,2306,2404>>
            >>,
            <<
              (* "request_details" *)
              <<114,101,113,117,101,115,116,95,100,101,116,97,105,108,115>>,
              <<2348,2375,2361,2340,2352,32,2360,2361,2366,2351,2340,2366,32,2346,2381,2352,2342,2366,2344,32,
                2325,2352,2344,2375,32,2325,2375,32,2354,2367,2319,44,32,2325,2371,2346,2351,
                2366,32,2346,2381,2352,2342,2366,2344,32,2325,2352,2375,2306,58>>
            >>,
            <<
              (* "treatment_plan" *)
              <<116,114,101,97,116,109,101,110,116,95,112,108,97,110>>,
              <<2310,2346,2325,2375,32,2357,2367,2357,2352,2339,32,2325,2375,32,2310,2343,2366,2352,32,2346,
                2352,44,32,2351,2361,2366,2306,32,2350,2375,2352,2368,32,2360,2369,2333,2366,
                2357,2367,2340,32,2313,2346,2330,2366,2352,32,2351,2379,2332,2344,2366,32,2361,
                2376,58>>
            >>,
            <<
              (* "follow_up_required" *)
              <<102,111,108,108,111,119,95,117,112,95,114,101,113,117,105,114,101,100>>,
              <<2325,2371,2346,2351,2366,32,123,100,97,121,115,125,32,2342,2367,2344,2379,2306,32,2350,2375,
                2306,32,2346,2381,2352,2327,2340,2367,32,2325,2368,32,2340,2360,2381,2357,2368,
                2352,2379,2306,32,2325,2375,32,2360,2366,2341,32,2347,2377,2354,2379,32,2309,
                2346,32,2325,2352,2375,2306,2404>>
            >>,
            <<
              (* "success_confirmation" *)
              <<115,117,99,99,101,115,115,95,99,111,110,102,105,114,109,97,116,105,111,110>>,
              <<2351,2361,32,2360,2369,2344,2325,2352,32,2326,2369,2358,2368,32,2361,2369,2312,32,2325,2367,
                32,2313,2346,2330,2366,2352,32,2325,2366,2350,32,2325,2352,32,2352,2361,2366,32,
                2361,2376,33,32,2357,2352,2381,2340,2350,2366,2344,32,2342,2371,2359,2381,2335,
                2367,2325,2379,2339,32,2332,2366,2352,2368,32,2352,2326,2375,2306,2404>>
            >>
          >>
        >>
      >>
    >>,
    <<
      (* "te" *)
      <<116,101>>,
      <<
        <<
          (* "farmer_responses" *)
          <<102,97,114,109,101,114,95,114,101,115,112,111,110,115,101,115>>,
          <<
            <<
              (* "greeting" *)
              <<103,114,101,101,116,105,110,103>>,
              <<3112,3118,3128,3149,3093,3134,3120,3074,33,32,3118,3136,32,3125,3149,3119,3125,3128,3134,3119,
                32,3114,3149,3120,3126,3149,3112,3122,3122,3147,32,3128,3129,3134,3119,3074,32,
                3098,3143,3119,3105,3134,3112,3135,3093,3135,32,3112,3143,3112,3137,32,3079,
                3093,3149,3093,3105,32,3081,3112,3149,3112,3134,3112,3137,46>>
            >>,
            <<
              (* "disease_detected" *)
              <<100,105,115,101,97,115,101,95,100,101,116,101,99,116,101,100>>,
              <<3118,3136,32,3114,3074,3103,3122,3147,32,3128,3074,3117,3134,3125,3149,3119,32,123,100,105,
                115,101,97,115,101,125,32,3112,3137,32,3095,3137,3120,3149,3108,3135,3074,3098,
                3134,3112,3137,46,32,3118,3136,3120,3137,32,3079,3122,3134,32,3098,3143,3119,
                3134,3122,3135,58>>
            >>,
            <<
              (* "healthy_crop" *)
              <<104,101,97,108,116,104,121,95,99,114,111,112>>,
              <<3118,3136,32,3114,3074,3103,32,3078,3120,3147,3095,3149,3119,3074,3095,3134,32,3093,3112,3135,
                3114,3135,3128,3149,3108,3147,3074,3110,3135,33,32,3118,3074,3098,3135,32,3114,
                3112,3135,32,3093,3146,3112,3128,3134,3095,3135,3074,3098,3074,3105,3135,46>>
            >>,
            <<
              (* "need_more_info" *)
              <<110,101,101,100,95,109,111,114,101,95,105,110,102,111>>,
              <<3118,3136,3093,3137,32,3118,3142,3120,3137,3095,3144,3112,32,3128,3129,3134,3119,3074,32,3077,
                3074,3110,3135,3074,3098,3105,3134,3112,3135,3093,3135,32,3112,3134,3093,3137,
                32,3118,3120,3135,3074,3108,32,3128,3118,3134,3098,3134,3120,3074,32,3077,3125,
                3128,3120,3074,46,32,3118,3136,3120,3137,32,3110,3136,3112,3135,32,3095,3137,
                3120,3135,3074,3098,3135,32,3118,3120,3135,3112,3149,3112,3135,32,3125,3135,
                3125,3120,3134,3122,3112,3137,32,3077,3074,3110,3135,3074,3098,3095,3122,3120,
                3134,58>>
            >>,
            <<
              (* "treatment_success" *)
              <<116,114,101,97,116,109,101,110,116,95,115,117,99,99,101,115,115>>,
              <<3098,3135,3093,3135,3108,3149,3128,32,123,100,97,121,115,125,32,3120,3147,3100,3137,3122,3149,
                3122,3147,32,3115,3122,3135,3108,3134,3122,3137,32,3098,3138,3114,3134,3122,
                3135,46>>
            >>,
            <<
              (* "follow_up" *)
              <<102,111,108,108,111,119,95,117,112>>,
              <<3110,3119,3098,3143,3128,3135,32,123,100,97,121,115,125,32,3120,3147,3100,3137,3122,3149,3122,
                3147,32,3108,3135,3120,3135,3095,3135,32,3108,3112,3135,3094,3136,32,3098,3143,
                3128,3135,44,32,3086,3122,3134,32,3100,3120,3137,3095,3137,3108,3137,3074,3110,
                3147,32,3112,3134,3093,3137,32,3108,3142,3122,3135,3119,3100,3143,3119,3074,
                3105,3135,46>>
            >>
          >>
        >>,
        <<
          (* "officer_templates" *)
          <<111,102,102,105,99,101,114,95,116,101,109,112,108,97,116,101,115>>,
          <<
            <<
              (* "acknowledgment" *)
              <<97,99,107,110,111,119,108,101,100,103,109,101,110,116>>,
              <<3118,3136,32,3114,3149,3120,3126,3149,3112,32,3114,3074,3114,3135,3112,3074,3110,3137,3093,
                3137,32,3111,3112,3149,3119,3125,3134,3110,3134,3122,3137,46,32,3112,3143,3112,
                3137,32,3110,3134,3112,3135,3112,3135,32,3079,3114,3149,3114,3137,3105,3137,32,
                3128,3118,3136,3093,3149,3127,3135,3128,3149,3108,3137,3112,3149,3112,3134,3112,
                3137,46>>
            >>,
            <<
              (* "request_details" *)
              <<114,101,113,117,101,115,116,95,100,101,116,97,105,108,115>>,
              <<3118,3142,3120,3137,3095,3144,3112,32,3128,3129,3134,3119,3134,3112,3149,3112,3135,32,3077,
                3074,3110,3135,3074,3098,3105,3134,3112,3135,3093,3135,44,32,3110,3119,3098,
                3143,3128,3135,32,3077,3074,3110,3135,3074,3098,3074,3105,3135,58>>
            >>,
            <<
              (* "treatment_plan" *)
              <<116,114,101,97,116,109,101,110,116,95,112,108,97,110>>,
              <<3118,3136,32,3125,3135,3125,3120,3107,32,3078,3111,3134,3120,3074,3095,3134,44,32,3079,3110,
                3135,3095,3147,32,3112,3134,32,3128,3135,3115,3134,3120,3149,3128,3137,32,3098,
                3143,3128,3135,3112,32,3098,3135,3093,3135,3108,3149,3128,32,3114,3149,3120,
                3107,3134,3123,3135,3093,58>>
            >>,
            <<
              (* "follow_up_required" *)
              <<102,111,108,108,111,119,95,117,112,95,114,101,113,117,105,114,101,100>>,
              <<3110,3119,3098,3143,3128,3135,32,123,100,97,121,115,125,32,3120,3147,3100,3137,3122,3149,3122,
                3147,32,3114,3137,3120,3147,3095,3108,3135,32,3115,3147,3103,3147,3122,3108,
                3147,32,3108,3135,3120,3135,3095,3135,32,3128,3074,3114,3149,3120,3110,3135,
                3074,3098,3074,3105,3135,46>>
            >>,
            <<
              (* "success_confirmation" *)
              <<115,117,99,99,101,115,115,95,99,111,110,102,105,114,109,97,116,105,111,110>>,
              <<3098,3135,3093,3135,3108,3149,3128,32,3114,3112,3135,3098,3143,3128,3149,3108,3137,3074,3110,
                3112,3135,32,3125,3135,3112,3135,32,3128,3074,3108,3147,3127,3074,33,32,3114,
                3149,3120,3128,3149,3108,3137,3108,32,3125,3135,3111,3134,3112,3134,3112,3149,
                3112,3135,32,3093,3146,3112,3128,3134,3095,3135,3074,3098,3074,3105,3135,46>>
            >>
          >>
        >>
      >>
    >>
  >>

\* get_popular_topics.topics_by_language: language -> the list of topics
topics_by_language ==
  <<
    <<
      (* "en" *)
      <<101,110>>,
      <<
        [id |-> 1,
         title |->
            (* "Crop Disease Diagnosis" *)
            <<67,114,111,112,32,68,105,115,101,97,115,101,32,68,105,97,103,110,111,115,105,115>>,
         icon |-> <<129440>>,
         category |->
            (* "health" *)
            <<104,101,97,108,116,104>>],
        [id |-> 2,
         title |->
            (* "Pest Control Solutions" *)
            <<80,101,115,116,32,67,111,110,116,114,111,108,32,83,111,108,117,116,105,111,110,115>>,
         icon |-> <<128027>>,
         category |->
            (* "protection" *)
            <<112,114,111,116,101,99,116,105,111,110>>],
        [id |-> 3,
         title |->
            (* "Irrigation Management" *)
            <<73,114,114,105,103,97,116,105,111,110,32,77,97,110,97,103,101,109,101,110,116>>,
         icon |-> <<128167>>,
         category |->
            (* "water" *)
            <<119,97,116,101,114>>],
        [id |-> 4,
         title |->
            (* "Soil Health Testing" *)
            <<83,111,105,108,32,72,101,97,108,116,104,32,84,101,115,116,105,110,103>>,
         icon |-> <<127793>>,
         category |->
            (* "soil" *)
            <<115,111,105,108>>],
        [id |-> 5,
         title |->
            (* "Harvest Timing" *)
            <<72,97,114,118,101,115,116,32,84,105,109,105,110,103>>,
         icon |-> <<127806>>,
         category |->
            (* "harvest" *)
            <<104,97,114,118,101,115,116>>],
        [id |-> 6,
         title |->
            (* "Weather Impact" *)
            <<87,101,97,116,104,101,114,32,73,109,112,97,99,116>>,
         icon |-> <<127780,65039>>,
         category |->
            (* "weather" *)
            <<119,101,97,116,104,101,114>>]
      >>
    >>,
    <<
      (* "hi" *)
      <<104,105>>,
      <<
        [id |-> 1,
         title |->
            <<2347,2360,2354,32,2352,2379,2327,32,2344,2367,2342,2366,2344>>,
         icon |-> <<129440>>,
         category |->
            (* "health" *)
            <<104,101,97,108,116,104>>],
        [id |-> 2,
         title |->
            <<2325,2368,2335,32,2344,2367,2351,2306,2340,2381,2352,2339,32,2360,2350,2366,2343,2366,2344>>,
         icon |-> <<128027>>,
         category |->
            (* "protection" *)
            <<112,114,111,116,101,99,116,105,111,110>>],
        [id |-> 3,
         title |->
            <<2360,2367,2306,2330,2366,2312,32,2346,2381,2352,2348,2306,2343,2344>>,
         icon |-> <<128167>>,
         category |->
            (* "water" *)
            <<119,97,116,101,114>>],
        [id |-> 4,
         title |->
            <<2350,2367,2335,2381,2335,2368,32,2360,2381,2357,2366,2360,2381,2341,2381,2351,32,2346,2352,
              2368,2325,2381,2359,2339>>,
         icon |-> <<127793>>,
         category |->
            (* "soil" *)
            <<115,111,105,108>>],
        [id |-> 5,
         title |->
            <<2347,2360,2354,32,2325,2366,32,2360,2350,2351>>,
         icon |-> <<127806>>,
         category |->
            (* "harvest" *)
            <<104,97,114,118,101,115,116>>],
        [id |-> 6,
         title |->
            <<2350,2380,2360,2350,32,2325,2366,32,2346,2381,2352,2349,2366,2357>>,
         icon |-> <<127780,65039>>,
         category |->
            (* "weather" *)
            <<119,101,97,116,104,101,114>>]
      >>
    >>,
    <<
      (* "te" *)
      <<116,101>>,
      <<
        [id |-> 1,
         title |->
            <<3114,3074,3103,32,3125,3149,3119,3134,3111,3135,32,3112,3135,3120,3149,3111,3134,3120,3107>>,
         icon |-> <<129440>>,
         category |->
            (* "health" *)
            <<104,101,97,108,116,104>>],
        [id |-> 2,
         title |->
            <<3093,3136,3103,3093,3134,3122,32,3112,3135,3119,3074,3108,3149,3120,3107,32,3114,3120,3135,
              3127,3149,3093,3134,3120,3134,3122,3137>>,
         icon |-> <<128027>>,
         category |->
            (* "protection" *)
            <<112,114,111,116,101,99,116,105,111,110>>],
        [id |-> 3,
         title |->
            <<3112,3136,3103,3135,3114,3134,3120,3137,3110,3122,32,3112,3135,3120,3149,3125,3129,3107>>,
         icon |-> <<128167>>,
         category |->
            (* "water" *)
            <<119,97,116,101,114>>],
        [id |-> 4,
         title |->
            <<3118,3103,3149,3103,3135,32,3078,3120,3147,3095,3149,3119,32,3114,3120,3136,3093,3149,3127>>,
         icon |-> <<127793>>,
         category |->
            (* "soil" *)
            <<115,111,105,108>>],
        [id |-> 5,
         title |->
            <<3093,3147,3108,32,3128,3118,3119,3074>>,
         icon |-> <<127806>>,
         category |->
            (* "harvest" *)
            <<104,97,114,118,101,115,116>>],
        [id |-> 6,
         title |->
            <<3125,3134,3108,3134,3125,3120,3107,32,3114,3149,3120,3117,3134,3125,3074>>,
         icon |-> <<127780,65039>>,
         category |->
            (* "weather" *)
            <<119,101,97,116,104,101,114>>]
      >>
    >>
  >>

----------------------------------------------------------------------------
(* app/services/ai_service.py: the responder *)

\* the language codes the responder supports: 'en', 'hi', 'te'
SupportedLanguages == {(* "en" *) <<101,110>>, (* "hi" *) <<104,105>>, (* "te" *) <<116,101>>}

\* lang = language.lower() if language.lower() in ['en', 'hi', 'te'] else 'en'
lang(language) == IF lower(language) \in SupportedLanguages THEN lower(language) ELSE (* "en" *) <<101,110>>

\* what a call gives its caller: a returned value, or an exception
Return(v) == [raised |-> FALSE, value |-> v]
Raise == [raised |-> TRUE]

\* whether the dict d, held as the sequence of its items, has the key
has_key(d, key) == \E i \in 1..Len(d) : d[i][1] = key

\* the end of _translate: by_language is translations.get(text, {})
translated(by_language, text, language) ==
  IF has_key(by_language, language) THEN get(by_language, language, text) ELSE text

\* _translate(text, language)
_translate(text, language) == translated(get(translations, text, <<>>), text, language)

\* _get_crop_specific_advice(crop_type, language); crop_type.lower() raises
\* AttributeError when crop_type is not a str
_get_crop_specific_advice(crop_type, language) ==
  IF crop_type.tag # "str" THEN Raise
  ELSE Return(get(get(crop_advice, lower(language), crop_advice_en), lower(crop_type.v), <<>>))

\* location_advice of _get_location_specific_advice: the f-string of each
\* language, with the location put in as it is
location_advice(location) ==
  << << (* "en" *) <<101,110>>, (* "For your location in " *) <<70,111,114,32,121,111,117,114,32,108,111,99,97,116,105,111,110,32,105,110,32>> \o location
                \o (* ", consider the local climate conditions and seasonal patterns." *) <<44,32,99,111,110,115,105,100,101,114,32,116,104,101,32,108,111,99,97,108,32,99,108,105,109,97,116,101,32,99,111,110,100,105,116,105,111,110,115,32,97,110,100,32,115,101,97,115,111,110,97,108,32,112,97,116,116,101,114,110,115,46>> >>,
     << (* "hi" *) <<104,105>>, location \o (* the text of the source *) <<32,2350,2375,2306,32,2310,2346,2325,2375,32,2360,2381,2341,2366,2344,32,2325,2375,32,2354,2367,2319,44,32,2360,2381,2341,2366,2344,2368,2351,32,2332,2354,2357,2366,2351,2369,32,2346,2352,2367,2360,2381,2341,2367,2340,2367,2351,2379,2306,32,2324,2352,32,2350,2380,2360,2350,2368,32,2346,2376,2335,2352,2381,2344,32,2346,2352,32,2357,2367,2330,2366,2352,32,2325,2352,2375,2306,2404>> >>,
     << (* "te" *) <<116,101>>, location \o (* the text of the source *) <<32,3122,3147,32,3118,3136,32,3114,3149,3120,3134,3074,3108,3134,3112,3135,3093,3135,44,32,3128,3149,3109,3134,3112,3135,3093,32,3125,3134,3108,3134,3125,3120,3107,32,3114,3120,3135,3128,3149,3109,3135,3108,3137,3122,3137,32,3118,3120,3135,3119,3137,32,3093,3134,3122,3134,3112,3137,3095,3137,3107,32,3112,3118,3138,3112,3134,3122,3112,3137,32,3114,3120,3135,3095,3107,3135,3074,3098,3074,3105,3135,46>> >> >>

\* _get_location_specific_advice(location, language)
_get_location_specific_advice(location, language) ==
  get(location_advice(location.v), lower(language),
      (* "For your location in " *) <<70,111,114,32,121,111,117,114,32,108,111,99,97,116,105,111,110,32,105,110,32>> \o location.v
      \o (* ", consider the local climate conditions and seasonal patterns." *) <<44,32,99,111,110,115,105,100,101,114,32,116,104,101,32,108,111,99,97,108,32,99,108,105,109,97,116,101,32,99,111,110,100,105,116,105,111,110,115,32,97,110,100,32,115,101,97,115,111,110,97,108,32,112,97,116,116,101,114,110,115,46>>)

\* the keywords of advice_dict that occur in query, as indices
keyword_hits(advice_dict, query) ==
  {i \in 1..Len(advice_dict) : contains(advice_dict[i][1], query)}

\* the least index of a set of indices that is not empty
first(hits) == CHOOSE i \in hits : \A j \in hits : i <= j

\* advice_for with the keyword found by its place in the query (a bug: the
\* keyword that comes first in the query wins, not the first of the dict)
advice_for_first_in_query(advice_dict, query, language) ==
  IF keyword_hits(advice_dict, query) # {}
  THEN advice_dict[CHOOSE i \in keyword_hits(advice_dict, query) :
                     \E at \in 0..Len(query) :
                       /\ OccursAt(advice_dict[i][1], query, at)
                       /\ \A j \in keyword_hits(advice_dict, query), before \in 0..(at - 1) :
                            ~OccursAt(advice_dict[j][1], query, before)][2]
  ELSE get(default_advice, lower(language), get(default_advice, (* "en" *) <<101,110>>, <<>>))

\* the loop of _get_generic_advice: the advice of the first keyword of
\* advice_dict, in its order, that occurs in query, and the default advice of
\* the language when none does
advice_for(advice_dict, query, language) ==
  IF keyword_hits(advice_dict, query) # {}
  THEN advice_dict[first(keyword_hits(advice_dict, query))][2]
  ELSE get(default_advice, lower(language), get(default_advice, (* "en" *) <<101,110>>, <<>>))

\* _get_generic_advice(query, language)
_get_generic_advice(query, language) ==
  advice_for(get(generic_advice, lower(language), generic_advice_en), query, language)

\* _generate_suggestions without the slice (a bug: the whole list is returned)
_generate_suggestions_unsliced(query, language, detected_issue) ==
  get(suggestions, lower(language), get(suggestions, (* "en" *) <<101,110>>, <<>>))

\* _generate_suggestions(query, language, detected_issue): the first three of the language's list
_generate_suggestions(query, language, detected_issue) ==
  Prefix(get(suggestions, lower(language), get(suggestions, (* "en" *) <<101,110>>, <<>>)), 3)

\* any(keyword in query_lower for keyword in keywords)
any_keyword(keywords, query_lower) ==
  \E k \in 1..Len(keywords) : contains(keywords[k], query_lower)

\* whether a token of a symptom of the disease occurs in the query
disease_hit(info, query_lower) ==
  \E s \in 1..Len(info.symptoms) : any_keyword(split(lower(info.symptoms[s])), query_lower)

\* the diseases of the catalog that hit, as indices
disease_hits(catalog, query_lower) ==
  {i \in 1..Len(catalog) : disease_hit(catalog[i][2], query_lower)}

\* pest_hits that looks for the words of the identification text too (a bug:
\* a word that describes a pest is taken for its name)
pest_hits_by_identification(catalog, query_lower) ==
  {i \in 1..Len(catalog) :
     \/ contains(lower(catalog[i][1]), query_lower)
     \/ any_keyword(split(lower(catalog[i][2].identification)), query_lower)}

\* the pests of the catalog whose name occurs in the query, as indices
pest_hits(catalog, query_lower) ==
  {i \in 1..Len(catalog) : contains(lower(catalog[i][1]), query_lower)}

\* first_key with the loop running to its end (a bug: no break, the last hit
\* of the catalog wins)
first_key_unbroken(catalog, hits) ==
  IF hits = {} THEN None ELSE Str(catalog[CHOOSE i \in hits : \A j \in hits : j <= i][1])

\* the key of the first item of the catalog among the hits, None without a hit
\* (a loop that breaks at its first hit)
first_key(catalog, hits) == IF hits = {} THEN None ELSE Str(catalog[first(hits)][1])

\* the disease loop
detect_disease(lg, query_lower) ==
  first_key(get(FARMING_KNOWLEDGE.diseases, lg, <<>>),
            disease_hits(get(FARMING_KNOWLEDGE.diseases, lg, <<>>), query_lower))

\* the pest loop
detect_pest(lg, query_lower) ==
  first_key(get(FARMING_KNOWLEDGE.pests, lg, <<>>),
            pest_hits(get(FARMING_KNOWLEDGE.pests, lg, <<>>), query_lower))

\* issue with the pest tried first (a bug: the priority of the passes swapped)
issue_pest_first(disease, pest) ==
  IF Truthy(pest)
  THEN [detected_issue |-> pest, issue_type |-> "pest", confidence |-> 8]
  ELSE IF Truthy(disease)
  THEN [detected_issue |-> disease, issue_type |-> "disease", confidence |-> 8]
  ELSE [detected_issue |-> None, issue_type |-> "None", confidence |-> 7]

\* detected_issue, issue_type and the confidence after the two loops: the pest
\* loop runs only if no disease was found
issue(disease, pest) ==
  IF Truthy(disease)
  THEN [detected_issue |-> disease, issue_type |-> "disease", confidence |-> 8]
  ELSE IF Truthy(pest)
  THEN [detected_issue |-> pest, issue_type |-> "pest", confidence |-> 8]
  ELSE [detected_issue |-> None, issue_type |-> "None", confidence |-> 7]

\* the two detection loops of get_ai_response
detect(lg, query_lower) == issue(detect_disease(lg, query_lower), detect_pest(lg, query_lower))

\* the response of the branch issue_type == "disease"
disease_response(lg, templates, detected_issue, disease_info) ==
  [response |->
     format(templates.disease_detected, (* "disease" *) <<100,105,115,101,97,115,101>>, detected_issue) \o (* "\n\n" *) <<10,10>>
     \o (* "**" *) <<42,42>> \o _translate((* "Treatment" *) <<84,114,101,97,116,109,101,110,116>>, lg) \o (* ":** " *) <<58,42,42,32>> \o disease_info.treatment \o (* "\n\n" *) <<10,10>>
     \o (* "**" *) <<42,42>> \o _translate((* "Prevention" *) <<80,114,101,118,101,110,116,105,111,110>>, lg) \o (* ":** " *) <<58,42,42,32>> \o disease_info.prevention,
   response_type |-> "disease_diagnosis",
   actions |-> << _translate((* "Apply recommended treatment" *) <<65,112,112,108,121,32,114,101,99,111,109,109,101,110,100,101,100,32,116,114,101,97,116,109,101,110,116>>, lg),
                  _translate((* "Monitor progress daily" *) <<77,111,110,105,116,111,114,32,112,114,111,103,114,101,115,115,32,100,97,105,108,121>>, lg),
                  _translate((* "Remove affected plant parts" *) <<82,101,109,111,118,101,32,97,102,102,101,99,116,101,100,32,112,108,97,110,116,32,112,97,114,116,115>>, lg) >>]

\* pest_response with the action list of the disease branch (a bug: one list
\* for both categories)
pest_response_disease_actions(lg, templates, detected_issue, pest_info) ==
  [response |->
     format(templates.pest_identified, (* "pest" *) <<112,101,115,116>>, detected_issue) \o (* "\n\n" *) <<10,10>>
     \o (* "**" *) <<42,42>> \o _translate((* "Identification" *) <<73,100,101,110,116,105,102,105,99,97,116,105,111,110>>, lg) \o (* ":** " *) <<58,42,42,32>> \o pest_info.identification \o (* "\n\n" *) <<10,10>>
     \o (* "**" *) <<42,42>> \o _translate((* "Treatment" *) <<84,114,101,97,116,109,101,110,116>>, lg) \o (* ":** " *) <<58,42,42,32>> \o pest_info.treatment \o (* "\n\n" *) <<10,10>>
     \o (* "**" *) <<42,42>> \o _translate((* "Prevention" *) <<80,114,101,118,101,110,116,105,111,110>>, lg) \o (* ":** " *) <<58,42,42,32>> \o pest_info.prevention,
   response_type |-> "pest_control",
   actions |-> << _translate((* "Apply recommended treatment" *) <<65,112,112,108,121,32,114,101,99,111,109,109,101,110,100,101,100,32,116,114,101,97,116,109,101,110,116>>, lg),
                  _translate((* "Monitor progress daily" *) <<77,111,110,105,116,111,114,32,112,114,111,103,114,101,115,115,32,100,97,105,108,121>>, lg),
                  _translate((* "Remove affected plant parts" *) <<82,101,109,111,118,101,32,97,102,102,101,99,116,101,100,32,112,108,97,110,116,32,112,97,114,116,115>>, lg) >>]

\* the response of the branch issue_type == "pest"
pest_response(lg, templates, detected_issue, pest_info) ==
  [response |->
     format(templates.pest_identified, (* "pest" *) <<112,101,115,116>>, detected_issue) \o (* "\n\n" *) <<10,10>>
     \o (* "**" *) <<42,42>> \o _translate((* "Identification" *) <<73,100,101,110,116,105,102,105,99,97,116,105,111,110>>, lg) \o (* ":** " *) <<58,42,42,32>> \o pest_info.identification \o (* "\n\n" *) <<10,10>>
     \o (* "**" *) <<42,42>> \o _translate((* "Treatment" *) <<84,114,101,97,116,109,101,110,116>>, lg) \o (* ":** " *) <<58,42,42,32>> \o pest_info.treatment \o (* "\n\n" *) <<10,10>>
     \o (* "**" *) <<42,42>> \o _translate((* "Prevention" *) <<80,114,101,118,101,110,116,105,111,110>>, lg) \o (* ":** " *) <<58,42,42,32>> \o pest_info.prevention,
   response_type |-> "pest_control",
   actions |-> << _translate((* "Apply pest control measures" *) <<65,112,112,108,121,32,112,101,115,116,32,99,111,110,116,114,111,108,32,109,101,97,115,117,114,101,115>>, lg),
                  _translate((* "Set up monitoring traps" *) <<83,101,116,32,117,112,32,109,111,110,105,116,111,114,105,110,103,32,116,114,97,112,115>>, lg),
                  _translate((* "Check plants regularly" *) <<67,104,101,99,107,32,112,108,97,110,116,115,32,114,101,103,117,108,97,114,108,121>>, lg) >>]

\* the text image_analysis adds in the general branch; image_analysis.get
\* raises AttributeError when image_analysis is not a dict
image_text(lg, image_analysis) ==
  IF ~Truthy(image_analysis) THEN Return(<<>>)
  ELSE IF image_analysis.tag # "dict" THEN Raise
  ELSE Return(
         (* "**" *) <<42,42>> \o _translate((* "Image Analysis" *) <<73,109,97,103,101,32,65,110,97,108,121,115,105,115>>, lg) \o (* ":** " *) <<58,42,42,32>>
         \o rget(image_analysis.v, "description", <<>>) \o (* "\n\n" *) <<10,10>>
         \o (IF rget(image_analysis.v, "recommendations", <<>>) # <<>>
             THEN (* "**" *) <<42,42>> \o _translate((* "Recommendations" *) <<82,101,99,111,109,109,101,110,100,97,116,105,111,110,115>>, lg) \o (* ":** " *) <<58,42,42,32>>
                  \o image_analysis.v.recommendations
             ELSE <<>>))

\* the crop advice of the general branch, with the blank line after it
crop_text(lg, crop_type) ==
  IF ~Truthy(crop_type) THEN Return(<<>>)
  ELSE IF _get_crop_specific_advice(crop_type, lg).raised THEN Raise
  ELSE Return(_get_crop_specific_advice(crop_type, lg).value \o (* "\n\n" *) <<10,10>>)

\* the location advice of the general branch, with the blank line after it
location_text(lg, location) ==
  IF Truthy(location) THEN _get_location_specific_advice(location, lg) \o (* "\n\n" *) <<10,10>> ELSE <<>>

\* the response of the else branch (no issue detected), given the texts of
\* the crop and of the image analysis
general_advice_response(lg, templates, query_lower, crop, location, image) ==
  IF crop.raised \/ image.raised THEN Raise
  ELSE Return(
    [response |->
       templates.general_advice \o (* "\n\n" *) <<10,10>>
       \o crop.value
       \o location_text(lg, location)
       \o image.value
       \o _get_generic_advice(query_lower, lg),
     response_type |-> "general_advice",
     actions |-> <<>>])

\* the else branch: general farming advice
general_response(lg, templates, query_lower, crop_type, location, image_analysis) ==
  general_advice_response(lg, templates, query_lower, crop_text(lg, crop_type), location,
                          image_text(lg, image_analysis))

\* notice with the follow-up reminder from 0.6 on (a bug: a wrong threshold)
notice_from_six(templates, confidence) ==
  IF confidence >= 6 THEN (* "\n\n" *) <<10,10>> \o format(templates.follow_up, (* "days" *) <<100,97,121,115>>, (* "7" *) <<55>>)
  ELSE IF confidence < 6 THEN (* "\n\n" *) <<10,10>> \o templates.confidence_low
  ELSE <<>>

\* the trailing notice: the follow-up reminder above 0.7, the low-confidence
\* notice below 0.6
notice(templates, confidence) ==
  IF confidence > 7 THEN (* "\n\n" *) <<10,10>> \o format(templates.follow_up, (* "days" *) <<100,97,121,115>>, (* "7" *) <<55>>)
  ELSE IF confidence < 6 THEN (* "\n\n" *) <<10,10>> \o templates.confidence_low
  ELSE <<>>

\* branch with the location advice in the branches of an issue too (a bug:
\* the text for an issue depends on the context of the call)
branch_with_location(lg, templates, query_lower, found, crop_type, location, image_analysis) ==
  IF Truthy(found.detected_issue) /\ found.issue_type # "None"
  THEN IF found.issue_type = "disease"
       THEN Return([disease_response(lg, templates, found.detected_issue.v,
                      get(get(FARMING_KNOWLEDGE.diseases, lg, <<>>), found.detected_issue.v, <<>>))
                      EXCEPT !.response = @ \o location_text(lg, location)])
       ELSE Return([pest_response(lg, templates, found.detected_issue.v,
                      get(get(FARMING_KNOWLEDGE.pests, lg, <<>>), found.detected_issue.v, <<>>))
                      EXCEPT !.response = @ \o location_text(lg, location)])
  ELSE general_response(lg, templates, query_lower, crop_type, location, image_analysis)

\* the branch taken on what was detected
branch(lg, templates, query_lower, found, crop_type, location, image_analysis) ==
  IF Truthy(found.detected_issue) /\ found.issue_type # "None"
  THEN IF found.issue_type = "disease"
       THEN Return(disease_response(lg, templates, found.detected_issue.v,
                     get(get(FARMING_KNOWLEDGE.diseases, lg, <<>>), found.detected_issue.v, <<>>)))
       ELSE Return(pest_response(lg, templates, found.detected_issue.v,
                     get(get(FARMING_KNOWLEDGE.pests, lg, <<>>), found.detected_issue.v, <<>>)))
  ELSE general_response(lg, templates, query_lower, crop_type, location, image_analysis)

\* confidence_of without the assignment of 0.6 in the general branch (a bug:
\* the initial 0.7 stays)
confidence_of_initial(found, response_type) == found.confidence

\* confidence_of with 0.5 in the general branch (a bug: a confidence under
\* the threshold of the low-confidence notice)
confidence_of_half(found, response_type) == IF response_type = "general_advice" THEN 5 ELSE found.confidence

\* the confidence of the response: 0.6 in the general branch, else the
\* confidence set by the detection
confidence_of(found, response_type) == IF response_type = "general_advice" THEN 6 ELSE found.confidence

\* the response dict at the return of the try block, given the branch's part
response_dict(lg, templates, query_lower, found, part) ==
  IF part.raised THEN Raise
  ELSE Return(
    [response |-> part.value.response
                  \o notice(templates, confidence_of(found, part.value.response_type)),
     confidence |-> confidence_of(found, part.value.response_type),
     suggestions |-> _generate_suggestions(query_lower, lg, found.detected_issue),
     actions |-> part.value.actions,
     language |-> lg,
     response_type |-> part.value.response_type])

\* the try block once lang, templates and query_lower are set
respond(lg, templates, query_lower, found, crop_type, location, image_analysis) ==
  response_dict(lg, templates, query_lower, found,
                branch(lg, templates, query_lower, found, crop_type, location, image_analysis))

\* the try block once lang and query_lower are set
compose_in(lg, query_lower, crop_type, location, image_analysis) ==
  respond(lg, get(RESPONSE_TEMPLATES, lg, RESPONSE_TEMPLATES_en), query_lower,
          detect(lg, query_lower), crop_type, location, image_analysis)

\* the try block of get_ai_response: the response dict, or the exception
\* raised on the way
compose(query, language, crop_type, location, has_image, image_analysis) ==
  compose_in(lang(language), lower(query), crop_type, location, image_analysis)

\* fallback with a sentence looked up by the requested language only (a bug:
\* no English default, an unsupported language gets an empty text)
fallback_without_default(language) ==
  [response |-> get(fallback_responses, language, <<>>),
   confidence |-> 1,
   suggestions |-> <<>>,
   actions |-> <<>>,
   language |-> language,
   response_type |-> "error",
   error |-> TRUE]

\* the except block of get_ai_response: the fallback response
fallback(language) ==
  [response |-> get(fallback_responses, language, get(fallback_responses, (* "en" *) <<101,110>>, <<>>)),
   confidence |-> 1,
   suggestions |-> <<>>,
   actions |-> <<>>,
   language |-> language,
   response_type |-> "error",
   error |-> TRUE]

\* or_fallback without the except block (a bug: the exception reaches the caller)
or_fallback_reraise(tried, language) == tried

\* try ... except Exception of get_ai_response: the fallback when the try
\* block raised
or_fallback(tried, language) == IF tried.raised THEN Return(fallback(language)) ELSE tried

\* get_ai_response with its response dict kept between the calls (a bug: the
\* actions an earlier call has set remain when the call sets none)
get_ai_response_shared(query, language, crop_type, location, has_image, image_analysis) ==
  Return([or_fallback(compose(query, language, crop_type, location, has_image, image_analysis),
                      language).value
            EXCEPT !.actions = IF @ = <<>> /\ "other" \in DOMAIN call
                               THEN call.other.value.actions ELSE @])

\* get_ai_response(query, language, crop_type, location, has_image, image_analysis)
get_ai_response(query, language, crop_type, location, has_image, image_analysis) ==
  or_fallback(compose(query, language, crop_type, location, has_image, image_analysis), language)

\* the try block of analyze_image(image_content, language); fault: whether an
\* exception is raised inside it
analysis(image_content, language, fault) ==
  IF fault THEN Raise ELSE Return(get(analysis_results, lang(language), analysis_results_en))

\* the except block of analyze_image: the fixed analysis
analysis_fallback ==
  [description |-> (* "Unable to analyze image at this time" *) <<85,110,97,98,108,101,32,116,111,32,97,110,97,108,121,122,101,32,105,109,97,103,101,32,97,116,32,116,104,105,115,32,116,105,109,101>>,
   recommendations |-> (* "Please try uploading the image again or describe the issue in text" *) <<80,108,101,97,115,101,32,116,114,121,32,117,112,108,111,97,100,105,110,103,32,116,104,101,32,105,109,97,103,101,32,97,103,97,105,110,32,111,114,32,100,101,115,99,114,105,98,101,32,116,104,101,32,105,115,115,117,101,32,105,110,32,116,101,120,116>>,
   detected_issues |-> <<>>,
   confidence |-> 0,
   error |-> TRUE]

\* or_analysis_fallback without the except block (a bug: the exception
\* reaches the handler)
or_analysis_fallback_reraise(tried) == tried

\* try ... except Exception of analyze_image
or_analysis_fallback(tried) == IF tried.raised THEN Return(analysis_fallback) ELSE tried

\* analyze_image(image_content, language)
analyze_image(image_content, language, fault) ==
  or_analysis_fallback(analysis(image_content, language, fault))

----------------------------------------------------------------------------
(* app/utils/validators.py (held in app/utils/logging_config.py) *)

\* filename.lower().split('.')[-1]: what follows the last dot (46) of the
\* lower-cased name, the whole name when it has no dot
extension(filename) ==
  LET name == lower(filename)
      dots == {i \in 1..Len(name) : name[i] = 46}
  IN IF dots = {} THEN name
     ELSE SubSeq(name, (CHOOSE i \in dots : \A j \in dots : j <= i) + 1, Len(name))

\* validate_file_type(filename, allowed_types)
validate_file_type(filename, allowed_types) ==
  IF filename = <<>> THEN FALSE
  ELSE extension(filename) \in {lower(allowed_types[t]) : t \in 1..Len(allowed_types)}

\* validate_file_size(file_size, max_size_mb)
validate_file_size(file_size, max_size_mb) == file_size <= max_size_mb * 1024 * 1024

----------------------------------------------------------------------------
(* app/routes/farmers.py: the farmer routes *)

\* the request validation of both routes: the text has 10 to 1000 characters,
\* the language matches ^(en|hi|te)$ and the urgency ^(low|medium|high)$
valid_request(text, language, urgency) ==
  /\ Len(text) >= 10
  /\ Len(text) <= 1000
  /\ language \in SupportedLanguages
  /\ urgency \in {"low", "medium", "high"}

\* the response to a request that fails the validation
validation_error == [status |-> 422]

\* the response of a raised HTTPException
http_error(status_code, detail) == [status |-> status_code, detail |-> detail]

\* the row submit_query builds for the table farmer_queries
query_record(id, text, language, crop_type, location, urgency, ai_response, now) ==
  [id |-> id,
   query_text |-> text,
   language |-> language,
   crop_type |-> crop_type,
   location |-> location,
   urgency |-> urgency,
   ai_response |-> ai_response.response,
   confidence_score |-> rget(ai_response, "confidence", 0),
   created_at |-> now,
   status |-> "completed"]

\* submit_query_response without the inner try (a bug: the insert's exception
\* reaches the handler's except)
submit_query_response_insert_raises(ai, id, language, now, db_error) ==
  IF ai.raised \/ db_error
  THEN http_error(500, "Failed to process your query")
  ELSE [status |-> 200,
        body |-> [success |-> TRUE,
                  query_id |-> id,
                  response |-> ai.value.response,
                  language |-> language,
                  confidence |-> rget(ai.value, "confidence", 0),
                  suggestions |-> rget(ai.value, "suggestions", <<>>),
                  timestamp |-> now]]

\* what submit_query returns, given the outcome of get_ai_response, the uuid4
\* and the time it drew, and whether the insert into farmer_queries raised:
\* the insert's exception is logged and the request goes on
submit_query_response(ai, id, language, now, db_error) ==
  IF ai.raised
  THEN http_error(500, "Failed to process your query")
  ELSE [status |-> 200,
        body |-> [success |-> TRUE,
                  query_id |-> id,
                  response |-> ai.value.response,
                  language |-> language,
                  confidence |-> rget(ai.value, "confidence", 0),
                  suggestions |-> rget(ai.value, "suggestions", <<>>),
                  timestamp |-> now]]

\* combined_query: the text, and the description of the image analysis when
\* there is one
combined_query(query_text, image_analysis) ==
  IF Truthy(image_analysis)
  THEN query_text \o (* "\n\nImage analysis: " *) <<10,10,73,109,97,103,101,32,97,110,97,108,121,115,105,115,58,32>> \o image_analysis.v.description
  ELSE query_text

\* what submit_query_with_image returns once the image, if any, is handled
query_with_image_response(ai, id, language, image_url, image_analysis, now) ==
  IF ai.raised
  THEN http_error(500, "Failed to process your query with image")
  ELSE [status |-> 200,
        body |-> [success |-> TRUE,
                  query_id |-> id,
                  response |-> ai.value.response,
                  language |-> language,
                  confidence |-> rget(ai.value, "confidence", 0),
                  image_url |-> image_url,
                  image_analysis |-> image_analysis,
                  suggestions |-> rget(ai.value, "suggestions", <<>>),
                  recommended_actions |-> rget(ai.value, "actions", <<>>),
                  timestamp |-> now]]

\* what the upload of the image leads to: "ok", or the response of the
\* failure; an "error" entry in the storage's result raises HTTPException(500),
\* an exception of the storage client is caught by the handler's except
upload_failure(upload) ==
  IF upload = "error" THEN http_error(500, "Failed to upload image")
  ELSE http_error(500, "Failed to process your query with image")

----------------------------------------------------------------------------
(* The officer routes: POST /officers/reply *)

\* how many requests the officer routes are sent
MaxReplies == 2

\* the worker threads that run the handlers (a def handler runs in a thread
\* pool, so two requests can be handled at the same time)
Workers == {1, 2}

\* str.strip(): without the whitespace at its two ends
strip(s) ==
  IF \A i \in 1..Len(s) : IsSpace(s[i]) THEN <<>>
  ELSE SubSeq(s, CHOOSE i \in 1..Len(s) : ~IsSpace(s[i]) /\ \A j \in 1..(i - 1) : IsSpace(s[j]),
                 CHOOSE i \in 1..Len(s) : ~IsSpace(s[i]) /\ \A j \in (i + 1)..Len(s) : IsSpace(s[j]))

\* the officer routes are idle; the store holds two queries that wait for a
\* reply and the profile of one officer
OfficerInit ==
  /\ queries = [id \in {1, 2} |->
                  [id |-> id, farmer_id |-> (* "farmer-1" *) <<102,97,114,109,101,114,45,49>>, status |-> "pending",
                   created_at |-> id, query_text |-> (* "I see aphids on my plant" *) <<73,32,115,101,101,32,97,112,104,105,100,115,32,111,110,32,109,121,32,112,108,97,110,116>>,
                   image_url |-> None, urgency |-> "medium"]]
  /\ profiles = [id \in {(* "officer-1" *) <<111,102,102,105,99,101,114,45,49>>} |->
                   [id |-> id, role |-> "officer", full_name |-> (* "Asha" *) <<65,115,104,97>>,
                    email |-> (* "asha@example.org" *) <<97,115,104,97,64,101,120,97,109,112,108,101,46,111,114,103>>]]
  /\ replies = <<>>
  /\ officer = [w \in Workers |-> [pc |-> "idle"]]

\* the bodies of the requests: the query 3 and the officer-9 have no row
QueryIds == {1, 2, 3}
OfficerIds == {(* "officer-1" *) <<111,102,102,105,99,101,114,45,49>>, (* "officer-9" *) <<111,102,102,105,99,101,114,45,57>>}
ReplyTexts == {(* " Spray neem oil \n" *) <<32,83,112,114,97,121,32,110,101,101,109,32,111,105,108,32,10>>}

\* fetch_query(query_id) on the rows of the table queries: the row, or
\* HTTPException(404)
fetch_query(rows, query_id) ==
  IF query_id \in DOMAIN rows THEN Return(rows[query_id]) ELSE Raise

\* fetch_profile that gives a row without looking for one (a bug: the officer
\* is not verified)
fetch_profile_unverified(rows, user_id) ==
  Return([id |-> user_id, role |-> "officer", full_name |-> <<>>, email |-> <<>>])

\* fetch_profile(user_id) on the rows of the table profiles: the row, or
\* HTTPException(404)
fetch_profile(rows, user_id) ==
  IF user_id \in DOMAIN rows THEN Return(rows[user_id]) ELSE Raise

\* the row the store makes of the payload of submit_reply
reply_row(id, body) ==
  [id |-> id, query_id |-> body.query_id, officer_id |-> body.officer_id,
   response_text |-> strip(body.response_text)]

\* submit_reply_response with the query as the store holds it after the update
\* (a bug: the row is read again, the status returned is "answered")
submit_reply_response_reread(ins, q, profile) ==
  [status |-> 200,
   body |-> [ok |-> TRUE,
             reply |-> ins,
             query |-> [q EXCEPT !.status = "answered"],
             officer |-> [id |-> profile.id, full_name |-> profile.full_name,
                          email |-> profile.email]]]

\* what submit_reply returns: the inserted row, the query as it was fetched and
\* the officer
submit_reply_response(ins, q, profile) ==
  [status |-> 200,
   body |-> [ok |-> TRUE,
             reply |-> ins,
             query |-> q,
             officer |-> [id |-> profile.id, full_name |-> profile.full_name,
                          email |-> profile.email]]]

\* POST /officers/reply arrives at worker w, and fetch_query runs
submit_reply(w) ==
  \E body \in [query_id : QueryIds, officer_id : OfficerIds, response_text : ReplyTexts] :
    /\ officer[w].pc \in {"idle", "done"}
    /\ served < MaxReplies
    /\ served' = served + 1
    /\ officer' = [officer EXCEPT ![w] =
         IF fetch_query(queries, body.query_id).raised
         THEN [pc |-> "done", body |-> body,
               resp |-> http_error(404, <<"Query not found", body.query_id>>)]
         ELSE [pc |-> "fetch_profile", body |-> body,
               q |-> fetch_query(queries, body.query_id).value]]
    /\ UNCHANGED <<queries, profiles, replies>>
    /\ UNCHANGED <<call, farmer_queries, storage, uuids, clock, pc, req, resp>>

\* submit_reply at worker w: fetch_profile runs
submit_reply_fetch_profile(w) ==
  /\ officer[w].pc = "fetch_profile"
  /\ officer' = [officer EXCEPT ![w] =
       IF fetch_profile(profiles, officer[w].body.officer_id).raised
       THEN [pc |-> "done", body |-> officer[w].body,
             resp |-> http_error(404, <<"Profile not found", officer[w].body.officer_id>>)]
       ELSE [pc |-> "insert", body |-> officer[w].body, q |-> officer[w].q,
             profile |-> fetch_profile(profiles, officer[w].body.officer_id).value]]
  /\ UNCHANGED <<queries, profiles, replies>>
  /\ UNCHANGED <<call, farmer_queries, storage, uuids, clock, served, pc, req, resp>>

\* submit_reply_insert without the check of ins.data (a bug: the handler goes
\* on to the update when the store returned no row)
submit_reply_insert_unchecked(w) ==
  \E inserted \in BOOLEAN :
    /\ officer[w].pc = "insert"
    /\ replies' = IF inserted
                  THEN Append(replies, reply_row(Len(replies) + 1, officer[w].body))
                  ELSE replies
    /\ officer' = [officer EXCEPT ![w] =
         [pc |-> "update", body |-> officer[w].body, q |-> officer[w].q,
          profile |-> officer[w].profile,
          ins |-> IF inserted THEN reply_row(Len(replies) + 1, officer[w].body) ELSE None]]
    /\ UNCHANGED <<queries, profiles>>
    /\ UNCHANGED <<call, farmer_queries, storage, uuids, clock, served, pc, req, resp>>

\* submit_reply at worker w: the reply is inserted.  inserted: the store
\* returns the row it inserted (ins.data is not empty)
submit_reply_insert(w) ==
  \E inserted \in BOOLEAN :
    /\ officer[w].pc = "insert"
    /\ replies' = IF inserted
                  THEN Append(replies, reply_row(Len(replies) + 1, officer[w].body))
                  ELSE replies
    /\ officer' = [officer EXCEPT ![w] =
         IF inserted
         THEN [pc |-> "update", body |-> officer[w].body, q |-> officer[w].q,
               profile |-> officer[w].profile,
               ins |-> reply_row(Len(replies) + 1, officer[w].body)]
         ELSE [pc |-> "done", body |-> officer[w].body,
               resp |-> http_error(500, "Insert reply failed")]]
    /\ UNCHANGED <<queries, profiles>>
    /\ UNCHANGED <<call, farmer_queries, storage, uuids, clock, served, pc, req, resp>>

\* submit_reply at worker w: the status of the query is set to answered and
\* the response is returned
submit_reply_update(w) ==
  /\ officer[w].pc = "update"
  /\ queries' = [id \in DOMAIN queries |->
                   IF id = officer[w].body.query_id
                   THEN [queries[id] EXCEPT !.status = "answered"]
                   ELSE queries[id]]
  /\ officer' = [officer EXCEPT ![w] =
       [pc |-> "done", body |-> officer[w].body, ins |-> officer[w].ins,
        resp |-> submit_reply_response(officer[w].ins, officer[w].q, officer[w].profile)]]
  /\ UNCHANGED <<profiles, replies>>
  /\ UNCHANGED <<call, farmer_queries, storage, uuids, clock, served, pc, req, resp>>

----------------------------------------------------------------------------
(* The arguments the calls are made with *)

\* the longest query, in words
MaxWords == 2

\* the words the queries are made of: a pest name written with a capital, a
\* token of an English symptom ("yellow spots on leaves"), a token of a Hindi
\* symptom and of a Telugu one (the first word of the first symptom of
\* leaf_spot) and a topic keyword of the generic advice
Vocabulary ==
  { (* "Aphids" *) <<65,112,104,105,100,115>>,
    (* "on" *) <<111,110>>,
    split(FARMING_KNOWLEDGE_diseases_hi[1][2].symptoms[1])[1],
    split(FARMING_KNOWLEDGE_diseases_te[1][2].symptoms[1])[1],
    (* "soil" *) <<115,111,105,108>> }

RECURSIVE Join(_)
\* the words of ws with a space between them
Join(ws) ==
  IF ws = <<>> THEN <<>>
  ELSE IF Len(ws) = 1 THEN ws[1]
  ELSE ws[1] \o <<32>> \o Join(Tail(ws))

\* the queries of section 8 of the specification
ScenarioQueries ==
  { (* "yellow spots on leaves" *) <<121,101,108,108,111,119,32,115,112,111,116,115,32,111,110,32,108,101,97,118,101,115>>,
    (* "I see aphids on my plant" *) <<73,32,115,101,101,32,97,112,104,105,100,115,32,111,110,32,109,121,32,112,108,97,110,116>>,
    (* "my field looks fine but I want advice" *) <<109,121,32,102,105,101,108,100,32,108,111,111,107,115,32,102,105,110,101,32,98,117,116,32,73,32,119,97,110,116,32,97,100,118,105,99,101>> }

\* queries made of words of the catalogs: tokens of the second and of the
\* third disease, the two pest names, words of an identification text, and
\* topic keywords of the generic advice; with them the empty query, the
\* words of the vocabulary and the queries of section 8
CatalogQueries ==
  { (* "dark" *) <<100,97,114,107>>,
    (* "dark leaf drop" *) <<100,97,114,107,32,108,101,97,102,32,100,114,111,112>>,
    (* "stunted growth" *) <<115,116,117,110,116,101,100,32,103,114,111,119,116,104>>,
    split(FARMING_KNOWLEDGE_diseases_hi[3][2].symptoms[3])[1] \o <<32>>
      \o split(FARMING_KNOWLEDGE_diseases_hi[2][2].symptoms[1])[1],
    (* "Whiteflies aphids" *) <<87,104,105,116,101,102,108,105,101,115,32,97,112,104,105,100,115>>,
    (* "tiny insects" *) <<116,105,110,121,32,105,110,115,101,99,116,115>>,
    (* "soil water weather" *) <<115,111,105,108,32,119,97,116,101,114,32,119,101,97,116,104,101,114>>,
    <<>> }
  \cup Vocabulary \cup ScenarioQueries

Queries ==
  {Join(ws) : ws \in UNION {[1..n -> Vocabulary] : n \in 0..MaxWords}} \cup ScenarioQueries

\* the supported codes, a code in capitals and an unsupported code
Languages == SupportedLanguages \cup {(* "HI" *) <<72,73>>, (* "xx" *) <<120,120>>}

\* no crop, a crop of the table written with a capital, a crop the table does
\* not hold, and a value that is not a str
CropTypes == {None, Str((* "Tomato" *) <<84,111,109,97,116,111>>), Str((* "potato" *) <<112,111,116,97,116,111>>), PyInt(123)}

Locations == {None, Str((* "Pune" *) <<80,117,110,101>>)}

\* no analysis, the placeholder analysis of each supported language, the
\* fixed analysis of a failed step, and a value that is not a dict
ImageAnalyses ==
  {None, Dict(analysis_results_en), Dict(analysis_fallback), Str((* "n/a" *) <<110,47,97>>)}

\* those, and an analysis with a description and no recommendations
CatalogAnalyses == ImageAnalyses \cup {Dict([description |-> (* "Leaf with pale edges" *) <<76,101,97,102,32,119,105,116,104,32,112,97,108,101,32,101,100,103,101,115>>])}

----------------------------------------------------------------------------
(* The calls of the responder *)

\* no call of the responder is observed
NoCall == [pc |-> "none"]

\* the caller has chosen the arguments of a call of get_ai_response; the farmer
\* routes are idle
Init ==
  /\ \E query \in Queries, language \in Languages, crop_type \in CropTypes,
        location \in Locations, image_analysis \in ImageAnalyses :
       call = [pc |-> "called",
               query |-> query, language |-> language, crop_type |-> crop_type,
               location |-> location, image_analysis |-> image_analysis]
  /\ farmer_queries = <<>>
  /\ storage = {}
  /\ uuids = 0
  /\ clock = 0
  /\ served = 0
  /\ pc = "idle"
  /\ req = [route |-> "none"]
  /\ resp = [status |-> 0]
  /\ OfficerInit

\* the call of get_ai_response runs and gives its caller its result
CallGetAiResponse ==
  /\ call.pc = "called"
  /\ call' = [call EXCEPT !.pc = "returned"] @@
             [ret |-> get_ai_response(call.query, call.language, call.crop_type, call.location,
                                      Truthy(call.image_analysis), call.image_analysis)]
  /\ UNCHANGED <<farmer_queries, storage, uuids, clock, served, pc, req, resp>>
  /\ UNCHANGED officer_vars

Next == CallGetAiResponse

Spec == Init /\ [][Next]_vars

\* the caller has chosen the arguments of a call of get_ai_response, its
\* query among those made of words of the catalogs
CatalogInit ==
  /\ \E query \in CatalogQueries, language \in Languages, crop_type \in CropTypes,
        location \in Locations, image_analysis \in CatalogAnalyses :
       call = [pc |-> "called",
               query |-> query, language |-> language, crop_type |-> crop_type,
               location |-> location, image_analysis |-> image_analysis]
  /\ farmer_queries = <<>>
  /\ storage = {}
  /\ uuids = 0
  /\ clock = 0
  /\ served = 0
  /\ pc = "idle"
  /\ req = [route |-> "none"]
  /\ resp = [status |-> 0]
  /\ OfficerInit

\* the calls of the responder on the words of its catalogs
CatalogCallSpec == CatalogInit /\ [][Next]_vars
----------------------------------------------------------------------------
(* The requests the farmer routes are sent *)

\* how many requests the routes are sent
MaxRequests == 1

\* a query with a pest name and no symptom token, the queries 2 and 3 of
\* section 8 of the specification, and a text shorter than 10 characters
RouteQueries ==
  { (* "Aphids soil" *) <<65,112,104,105,100,115,32,115,111,105,108>>,
    (* "I see aphids on my plant" *) <<73,32,115,101,101,32,97,112,104,105,100,115,32,111,110,32,109,121,32,112,108,97,110,116>>,
    (* "my field looks fine but I want advice" *) <<109,121,32,102,105,101,108,100,32,108,111,111,107,115,32,102,105,110,101,32,98,117,116,32,73,32,119,97,110,116,32,97,100,118,105,99,101>>,
    (* "on" *) <<111,110>> }

RouteLanguages == SupportedLanguages \cup {(* "xx" *) <<120,120>>}

RouteCropTypes == {None, Str((* "Tomato" *) <<84,111,109,97,116,111>>)}

\* an upload: its file name and its size in bytes
Upload(filename, size) == [tag |-> "file", filename |-> filename, size |-> size]

\* no image, an image of an allowed type, a file of another type, an image
\* of more than 5 MB, and a file whose name has no extension
Images ==
  { None,
    Upload((* "leaf.JPG" *) <<108,101,97,102,46,74,80,71>>, 1024),
    Upload((* "leaf.gif" *) <<108,101,97,102,46,103,105,102>>, 1024),
    Upload((* "field.png" *) <<102,105,101,108,100,46,112,110,103>>, 5 * 1024 * 1024 + 1),
    Upload((* "png" *) <<112,110,103>>, 1024) }

\* no request has been sent
RouteInit ==
  /\ call = NoCall
  /\ farmer_queries = <<>>
  /\ storage = {}
  /\ uuids = 0
  /\ clock = 0
  /\ served = 0
  /\ pc = "idle"
  /\ req = [route |-> "none"]
  /\ resp = [status |-> 0]
  /\ OfficerInit

\* the handler of submit_query once get_ai_response has returned ai: the
\* uuid4 and the clock are drawn, the row is inserted unless the insert
\* raises, and the response is returned
submit_query_handler(text, language, crop_type, db_error, ai) ==
  /\ req' = [route |-> "query", text |-> text, language |-> language,
             crop_type |-> crop_type, ai_response |-> ai, id |-> uuids + 1, now |-> clock + 1,
             db_error |-> db_error]
  /\ uuids' = IF ai.raised THEN uuids ELSE uuids + 1
  /\ clock' = IF ai.raised THEN clock ELSE clock + 1
  /\ farmer_queries' =
       IF ai.raised \/ db_error THEN farmer_queries
       ELSE Append(farmer_queries,
                   query_record(uuids + 1, text, language, crop_type, None, "medium",
                                ai.value, clock + 1))
  /\ resp' = submit_query_response(ai, uuids + 1, language, clock + 1, db_error)

\* POST /query: the whole handler.  db_error: the insert into farmer_queries raises
submit_query ==
  \E text \in RouteQueries, language \in RouteLanguages, crop_type \in RouteCropTypes,
     db_error \in BOOLEAN :
    /\ pc \in {"idle", "done"}
    /\ pc' = "done"
    /\ served < MaxRequests
    /\ served' = served + 1
    /\ call' = call
    /\ UNCHANGED officer_vars
    /\ storage' = storage
    /\ IF ~valid_request(text, language, "medium")
       THEN /\ req' = [route |-> "query", text |-> text, language |-> language,
                       crop_type |-> crop_type]
            /\ resp' = validation_error
            /\ UNCHANGED <<farmer_queries, uuids, clock>>
       ELSE submit_query_handler(text, language, crop_type, db_error,
                                 get_ai_response(text, language, crop_type, None, FALSE, None))

\* the end of submit_query_with_image once get_ai_response has returned ai
respond_with_image(r, image_url, image_analysis, ai) ==
  /\ pc' = "done"
  /\ req' = r @@
            [image_url |-> image_url, image_analysis |-> image_analysis, ai_response |-> ai]
  /\ uuids' = IF ai.raised THEN uuids ELSE uuids + 1
  /\ clock' = IF ai.raised THEN clock ELSE clock + 1
  /\ resp' = query_with_image_response(ai, uuids + 1, r.language, image_url, image_analysis,
                                       clock + 1)

\* the end of submit_query_with_image, from combined_query on
compose_and_respond(r, image_url, image_analysis) ==
  \E ai \in {get_ai_response(combined_query(r.query_text, image_analysis), r.language,
                              r.crop_type, None, r.image # None, image_analysis)} :
    respond_with_image(r, image_url, image_analysis, ai)

\* POST /query-with-image, up to the call of analyze_image: the validation of
\* the request and of the image, the upload and the public URL.  Without an
\* image the handler runs to its end.  upload: what the storage does with it
submit_query_with_image ==
  \E query_text \in RouteQueries, language \in RouteLanguages, crop_type \in RouteCropTypes,
     image \in Images, upload \in {"ok", "error", "raise"} :
    LET r == [route |-> "query-with-image", query_text |-> query_text,
              language |-> language, crop_type |-> crop_type, image |-> image]
    IN /\ pc \in {"idle", "done"}
       /\ served < MaxRequests
       /\ served' = served + 1
       /\ UNCHANGED <<call, farmer_queries>>
       /\ UNCHANGED officer_vars
       /\ IF ~valid_request(query_text, language, "medium")
          THEN /\ pc' = "done"
               /\ req' = r
               /\ resp' = validation_error
               /\ UNCHANGED <<storage, uuids, clock>>
          ELSE IF image = None
          THEN /\ compose_and_respond(r, None, None)
               /\ storage' = storage
          ELSE IF ~validate_file_type(image.filename, << (* "jpg" *) <<106,112,103>>, (* "jpeg" *) <<106,112,101,103>>, (* "png" *) <<112,110,103>>, (* "webp" *) <<119,101,98,112>> >>)
          THEN /\ pc' = "done"
               /\ req' = r
               /\ resp' = http_error(400, "Invalid file type. Use JPG, PNG, or WebP")
               /\ UNCHANGED <<storage, uuids, clock>>
          ELSE IF ~validate_file_size(image.size, 5)
          THEN /\ pc' = "done"
               /\ req' = r
               /\ resp' = http_error(400, "File too large. Maximum size is 5MB")
               /\ UNCHANGED <<storage, uuids, clock>>
          ELSE LET file_path == [uuid |-> uuids + 1, filename |-> image.filename]
               IN /\ uuids' = uuids + 1
                  /\ clock' = clock
                  /\ IF upload = "ok"
                     THEN /\ storage' = storage \cup {file_path}
                          /\ pc' = "analyzing"
                          /\ req' = r @@
                                    [upload |-> upload, file_path |-> file_path,
                                     image_url |-> [publicURL |-> file_path]]
                          /\ resp' = resp
                     ELSE /\ storage' = storage
                          /\ pc' = "done"
                          /\ req' = r @@ [upload |-> upload]
                          /\ resp' = upload_failure(upload)

\* analyze_image, awaited by submit_query_with_image, returns.  fault: an
\* exception is raised inside its try block
analyze_image_returns ==
  \E fault \in BOOLEAN :
    /\ pc = "analyzing"
    /\ pc' = "analyzed"
    /\ req' = req @@
              [fault |-> fault, analysis |-> analyze_image(req.image, req.language, fault)]
    /\ UNCHANGED <<call, farmer_queries, storage, uuids, clock, served, resp>>
    /\ UNCHANGED officer_vars

\* submit_query_with_image goes on after analyze_image: an exception of
\* analyze_image is caught by the handler's except, its result is composed
\* into the response
submit_query_with_image_resume ==
  /\ pc = "analyzed"
  /\ IF req.analysis.raised
     THEN /\ pc' = "done"
          /\ req' = req
          /\ resp' = http_error(500, "Failed to process your query with image")
          /\ UNCHANGED <<uuids, clock>>
     ELSE compose_and_respond(req, req.image_url, Dict(req.analysis.value))
  /\ UNCHANGED <<call, farmer_queries, storage, served>>
  /\ UNCHANGED officer_vars

RouteNext ==
  \/ submit_query
  \/ submit_query_with_image
  \/ analyze_image_returns
  \/ submit_query_with_image_resume

\* the farmer routes
RouteSpec == RouteInit /\ [][RouteNext]_vars

\* the step submit_query_with_image_resume, told by the handler's position
resumes == pc = "analyzed" /\ pc' = "done"

\* the farmer routes, where a handler that can go on after its await goes on;
\* nothing makes analyze_image return: the handler awaits it without a timeout
FairRouteSpec ==
  RouteSpec /\ WF_pc(resumes)

----------------------------------------------------------------------------
(* GET /query-history/{farmer_id} *)

\* query_builder.eq(column, value): the rows whose column holds the value; a
\* row without the column holds NULL there and matches no value
eq(rows, column, value) ==
  SelectSeq(rows, LAMBDA row : column \in DOMAIN row /\ row[column] = value)

\* how many rows come before row i when rows are ordered by created_at,
\* descending (rows of equal created_at keep their order)
rows_before(rows, i) ==
  Cardinality({j \in 1..Len(rows) :
                 \/ rows[j].created_at > rows[i].created_at
                 \/ rows[j].created_at = rows[i].created_at /\ j < i})

\* query_builder.order("created_at", desc=True)
order_desc(rows) ==
  [k \in 1..Len(rows) |-> rows[CHOOSE i \in 1..Len(rows) : rows_before(rows, i) = k - 1]]

\* query_builder.range(start, end): the rows start..end (0-based, inclusive)
range(rows, start, end) ==
  SubSeq(rows, start + 1, IF end + 1 < Len(rows) THEN end + 1 ELSE Len(rows))

\* the rows get_query_history selects: no filter on farmer_id (the line that
\* filters is commented out), the filter on language when one is given, the
\* order and the page
history_rows(rows, farmer_id, limit, offset, language) ==
  range(order_desc(IF Truthy(language) THEN eq(rows, "language", language.v) ELSE rows),
        offset, offset + limit - 1)

\* what get_query_history returns for the rows of the page
history_response(data, limit) ==
  [status |-> 200,
   body |-> [success |-> TRUE,
             queries |-> data,
             total |-> Len(data),
             has_more |-> Len(data) = limit]]

\* the farmers whose history is asked for
FarmerIds == {(* "farmer-1" *) <<102,97,114,109,101,114,45,49>>, (* "farmer-2" *) <<102,97,114,109,101,114,45,50>>}

\* limit and offset of a page
Limits == {1, 2}
Offsets == {0, 1}

\* the language filter: none, or a language code
HistoryLanguages == {None, Str((* "en" *) <<101,110>>), Str((* "hi" *) <<104,105>>)}

\* GET /query-history/{farmer_id}: the whole handler.  db_error: the store raises
get_query_history ==
  \E farmer_id \in FarmerIds, limit \in Limits, offset \in Offsets,
     language \in HistoryLanguages, db_error \in BOOLEAN :
    /\ pc \in {"idle", "done"}
    /\ pc' = "done"
    /\ req' = [route |-> "query-history", farmer_id |-> farmer_id, limit |-> limit,
               offset |-> offset, language |-> language, db_error |-> db_error]
    /\ resp' = IF db_error
               THEN http_error(500, "Failed to fetch query history")
               ELSE history_response(
                      history_rows(farmer_queries, farmer_id, limit, offset, language), limit)
    /\ UNCHANGED <<call, farmer_queries, storage, uuids, clock, served>>
    /\ UNCHANGED officer_vars

HistoryNext ==
  \/ submit_query
  \/ get_query_history

\* the farmer routes that write and read the table farmer_queries
HistorySpec == RouteInit /\ [][HistoryNext]_vars

----------------------------------------------------------------------------
(* The catalog routes: /translations/... and GET /popular-topics *)

\* the language codes the catalog routes are asked for
CatalogLanguages == SupportedLanguages \cup {(* "HI" *) <<72,73>>, (* "xx" *) <<120,120>>, (* "fr" *) <<102,114>>}

\* the texts and the categories translate_text is asked for
CatalogTexts ==
  { (* "" *) <<>>, (* "Greeting" *) <<71,114,101,101,116,105,110,103>>, (* "please follow_up" *) <<112,108,101,97,115,101,32,102,111,108,108,111,119,95,117,112>>, (* "the treatment_plan and acknowledgment" *) <<116,104,101,32,116,114,101,97,116,109,101,110,116,95,112,108,97,110,32,97,110,100,32,97,99,107,110,111,119,108,101,100,103,109,101,110,116>>,
    (* "healthy_crop" *) <<104,101,97,108,116,104,121,95,99,114,111,112>> }

CatalogCategories == {(* "general" *) <<103,101,110,101,114,97,108>>, (* "farmer_responses" *) <<102,97,114,109,101,114,95,114,101,115,112,111,110,115,101,115>>, (* "officer_templates" *) <<111,102,102,105,99,101,114,95,116,101,109,112,108,97,116,101,115>>}

\* HTTPException(status_code=404, detail=f"Language '{language}' not supported")
not_supported(language) ==
  http_error(404, (* "Language '" *) <<76,97,110,103,117,97,103,101,32,39>> \o language \o (* "' not supported" *) <<39,32,110,111,116,32,115,117,112,112,111,114,116,101,100>>)

\* GET /translations/{language}
get_translations ==
  \E language \in CatalogLanguages :
    /\ pc \in {"idle", "done"}
    /\ pc' = "done"
    /\ req' = [route |-> "translations", language |-> language]
    /\ resp' = IF ~has_key(TRANSLATIONS, language)
               THEN http_error(404, (* "Language '" *) <<76,97,110,103,117,97,103,101,32,39>> \o language
                                    \o (* "' not supported. Available languages: ['en', 'hi', 'te']" *) <<39,32,110,111,116,32,115,117,112,112,111,114,116,101,100,46,32,65,118,97,105,108,97,98,108,101,32,108,97,110,103,117,97,103,101,115,58,32,91,39,101,110,39,44,32,39,104,105,39,44,32,39,116,101,39,93>>)
               ELSE [status |-> 200,
                     body |-> [language |-> language,
                               translations |-> get(TRANSLATIONS, language, <<>>)]]
    /\ UNCHANGED <<call, farmer_queries, storage, uuids, clock, served>>
    /\ UNCHANGED officer_vars

\* GET /translations/{language}/farmer
get_farmer_responses ==
  \E language \in CatalogLanguages :
    /\ pc \in {"idle", "done"}
    /\ pc' = "done"
    /\ req' = [route |-> "translations/farmer", language |-> language]
    /\ resp' = IF ~has_key(TRANSLATIONS, language)
               THEN not_supported(language)
               ELSE [status |-> 200,
                     body |-> get(get(TRANSLATIONS, language, <<>>), (* "farmer_responses" *) <<102,97,114,109,101,114,95,114,101,115,112,111,110,115,101,115>>, <<>>)]
    /\ UNCHANGED <<call, farmer_queries, storage, uuids, clock, served>>
    /\ UNCHANGED officer_vars

\* GET /translations/{language}/officer
get_officer_templates ==
  \E language \in CatalogLanguages :
    /\ pc \in {"idle", "done"}
    /\ pc' = "done"
    /\ req' = [route |-> "translations/officer", language |-> language]
    /\ resp' = IF ~has_key(TRANSLATIONS, language)
               THEN not_supported(language)
               ELSE [status |-> 200,
                     body |-> get(get(TRANSLATIONS, language, <<>>), (* "officer_templates" *) <<111,102,102,105,99,101,114,95,116,101,109,112,108,97,116,101,115>>, <<>>)]
    /\ UNCHANGED <<call, farmer_queries, storage, uuids, clock, served>>
    /\ UNCHANGED officer_vars

\* what translate_text returns for a supported language: the template of the
\* first key of the category, in the dict's order, that occurs in the text
\* (both lower-cased); the text itself when the category is unknown or no
\* key occurs.  items: templates.get(category), <<>> for an unknown category
translated_text(language, text, category, items, hits) ==
  IF hits # {}
  THEN [status |-> 200,
        body |-> [original |-> text, translated |-> items[first(hits)][2],
                  language |-> language, category |-> category,
                  template_used |-> Str(items[first(hits)][1])]]
  ELSE [status |-> 200,
        body |-> [original |-> text, translated |-> text,
                  language |-> language, category |-> category,
                  template_used |-> None,
                  note |-> (* "No translation template found, using original text" *) <<78,111,32,116,114,97,110,115,108,97,116,105,111,110,32,116,101,109,112,108,97,116,101,32,102,111,117,110,100,44,32,117,115,105,110,103,32,111,114,105,103,105,110,97,108,32,116,101,120,116>>]]

\* POST /translations/{language}/translate
translate_text ==
  \E language \in CatalogLanguages, text \in CatalogTexts, category \in CatalogCategories :
    /\ pc \in {"idle", "done"}
    /\ pc' = "done"
    /\ req' = [route |-> "translations/translate", language |-> language, text |-> text,
               category |-> category]
    /\ resp' = IF ~has_key(TRANSLATIONS, language)
               THEN not_supported(language)
               ELSE LET items == get(get(TRANSLATIONS, language, <<>>), category, <<>>)
                    IN translated_text(language, text, category, items,
                                       {i \in 1..Len(items) :
                                          contains(lower(items[i][1]), lower(text))})
    /\ UNCHANGED <<call, farmer_queries, storage, uuids, clock, served>>
    /\ UNCHANGED officer_vars

\* GET /popular-topics
get_popular_topics ==
  \E language \in CatalogLanguages :
    /\ pc \in {"idle", "done"}
    /\ pc' = "done"
    /\ req' = [route |-> "popular-topics", language |-> language]
    /\ resp' = [status |-> 200,
                body |-> [success |-> TRUE,
                          language |-> language,
                          topics |-> get(topics_by_language, language,
                                         get(topics_by_language, (* "en" *) <<101,110>>, <<>>))]]
    /\ UNCHANGED <<call, farmer_queries, storage, uuids, clock, served>>
    /\ UNCHANGED officer_vars

CatalogNext ==
  \/ get_translations
  \/ get_farmer_responses
  \/ get_officer_templates
  \/ translate_text
  \/ get_popular_topics

\* the catalog routes
CatalogSpec == RouteInit /\ [][CatalogNext]_vars

OfficerNext ==
  \E w \in Workers :
    \/ submit_reply(w)
    \/ submit_reply_fetch_profile(w)
    \/ submit_reply_insert(w)
    \/ submit_reply_update(w)

\* the officer routes, their handlers running on the worker threads
OfficerSpec == RouteInit /\ [][OfficerNext]_vars

----------------------------------------------------------------------------
(* Repeated calls of the responder *)

\* how many times the caller makes the same call
MaxCalls == 2

\* the queries of the repeated call: those of section 8 and a topic keyword
RepeatQueries == ScenarioQueries \cup {(* "soil" *) <<115,111,105,108>>}

\* the calls made between two calls of the repeated call: a pest in Hindi
\* with a crop and an analysis, and a call whose try block raises
OtherCalls ==
  { [query |-> (* "Aphids" *) <<65,112,104,105,100,115>>, language |-> (* "hi" *) <<104,105>>, crop_type |-> Str((* "Tomato" *) <<84,111,109,97,116,111>>),
     location |-> None, image_analysis |-> Dict(analysis_results_en)],
    [query |-> (* "soil" *) <<115,111,105,108>>, language |-> (* "xx" *) <<120,120>>, crop_type |-> PyInt(123),
     location |-> Str((* "Pune" *) <<80,117,110,101>>), image_analysis |-> None] }

\* the caller has chosen the arguments of the call it repeats; rets: the
\* results of the call so far
RepeatInit ==
  /\ \E query \in RepeatQueries, language \in Languages, crop_type \in CropTypes,
        location \in Locations, image_analysis \in ImageAnalyses :
       call = [pc |-> "called",
               query |-> query, language |-> language, crop_type |-> crop_type,
               location |-> location, image_analysis |-> image_analysis,
               rets |-> <<>>]
  /\ farmer_queries = <<>>
  /\ storage = {}
  /\ uuids = 0
  /\ clock = 0
  /\ served = 0
  /\ pc = "idle"
  /\ req = [route |-> "none"]
  /\ resp = [status |-> 0]
  /\ OfficerInit

\* the repeated call of get_ai_response runs and returns
CallAgain ==
  /\ call.pc = "called"
  /\ Len(call.rets) < MaxCalls
  /\ call' = [call EXCEPT !.pc = "returned",
                          !.rets = Append(@, get_ai_response(call.query, call.language,
                                                             call.crop_type, call.location,
                                                             Truthy(call.image_analysis),
                                                             call.image_analysis))]
  /\ UNCHANGED <<farmer_queries, storage, uuids, clock, served, pc, req, resp>>
  /\ UNCHANGED officer_vars

\* another call of get_ai_response runs and returns, or none does
CallOther ==
  /\ call.pc = "returned"
  /\ \/ call' = [call EXCEPT !.pc = "called"]
     \/ \E o \in OtherCalls :
          call' = [pc |-> "called",
                   query |-> call.query, language |-> call.language,
                   crop_type |-> call.crop_type, location |-> call.location,
                   image_analysis |-> call.image_analysis, rets |-> call.rets,
                   other |-> get_ai_response(o.query, o.language, o.crop_type, o.location,
                                             Truthy(o.image_analysis), o.image_analysis)]
  /\ UNCHANGED <<farmer_queries, storage, uuids, clock, served, pc, req, resp>>
  /\ UNCHANGED officer_vars

RepeatNext == CallAgain \/ CallOther

\* one call of the responder made again and again, other calls in between
RepeatSpec == RepeatInit /\ [][RepeatNext]_vars

----------------------------------------------------------------------------
(* app/middleware/auth_middleware.py (held in app/utils/logging_config.py) *)

\* AuthMiddleware.EXCLUDED_PATHS: the routes that do not require authentication
EXCLUDED_PATHS ==
  << (* "/docs" *) <<47,100,111,99,115>>, (* "/redoc" *) <<47,114,101,100,111,99>>, (* "/openapi.json" *) <<47,111,112,101,110,97,112,105,46,106,115,111,110>>, (* "/" *) <<47>>, (* "/health" *) <<47,104,101,97,108,116,104>>, (* "/translations" *) <<47,116,114,97,110,115,108,97,116,105,111,110,115>>,
     (* "/farmers/query" *) <<47,102,97,114,109,101,114,115,47,113,117,101,114,121>>, (* "/farmers/popular-topics" *) <<47,102,97,114,109,101,114,115,47,112,111,112,117,108,97,114,45,116,111,112,105,99,115>> >>

\* s.startswith(prefix)
startswith(s, prefix) == Len(prefix) <= Len(s) /\ SubSeq(s, 1, Len(prefix)) = prefix

\* authorization.split(" ")[1] of a header that starts with "Bearer ": what
\* stands between its first space (32) and the next one
token_of(authorization) ==
  SubSeq(authorization, 8,
         IF \E i \in 8..Len(authorization) : authorization[i] = 32
         THEN (CHOOSE i \in 8..Len(authorization) :
                 authorization[i] = 32 /\ \A j \in 8..(i - 1) : authorization[j] # 32) - 1
         ELSE Len(authorization))

\* the tokens supabase.auth.get_user gives a user for
ValidTokens == {(* "good-token" *) <<103,111,111,100,45,116,111,107,101,110>>}

\* the paths of the requests: the excluded ones, routes of the routers, and
\* paths that go on after an excluded one
AuthPaths ==
  {EXCLUDED_PATHS[i] : i \in 1..Len(EXCLUDED_PATHS)}
  \cup { (* "/officers/reply" *) <<47,111,102,102,105,99,101,114,115,47,114,101,112,108,121>>, (* "/officers/queries" *) <<47,111,102,102,105,99,101,114,115,47,113,117,101,114,105,101,115>>, (* "/auth/login" *) <<47,97,117,116,104,47,108,111,103,105,110>>, (* "/ai/chat" *) <<47,97,105,47,99,104,97,116>>,
         (* "/farmers/query-with-image" *) <<47,102,97,114,109,101,114,115,47,113,117,101,114,121,45,119,105,116,104,45,105,109,97,103,101>>, (* "/farmers/query-history/farmer-1" *) <<47,102,97,114,109,101,114,115,47,113,117,101,114,121,45,104,105,115,116,111,114,121,47,102,97,114,109,101,114,45,49>>,
         (* "/translations/hi" *) <<47,116,114,97,110,115,108,97,116,105,111,110,115,47,104,105>>, (* "/healthz" *) <<47,104,101,97,108,116,104,122>>, (* "/docs/oauth2-redirect" *) <<47,100,111,99,115,47,111,97,117,116,104,50,45,114,101,100,105,114,101,99,116>> }

\* the Authorization headers: none, a valid and an invalid Bearer token, another
\* scheme, "bearer" in small letters, no token, and two spaces before the token
Authorizations ==
  { None, Str((* "Bearer good-token" *) <<66,101,97,114,101,114,32,103,111,111,100,45,116,111,107,101,110>>), Str((* "Bearer bad-token" *) <<66,101,97,114,101,114,32,98,97,100,45,116,111,107,101,110>>), Str((* "Basic dXNlcg==" *) <<66,97,115,105,99,32,100,88,78,108,99,103,61,61>>),
    Str((* "bearer good-token" *) <<98,101,97,114,101,114,32,103,111,111,100,45,116,111,107,101,110>>), Str((* "Bearer " *) <<66,101,97,114,101,114,32>>), Str((* "Bearer  good-token" *) <<66,101,97,114,101,114,32,32,103,111,111,100,45,116,111,107,101,110>>) }

\* AuthMiddleware.dispatch(request, call_next): whether call_next is reached,
\* the status of the response, and request.state.user.  invalid: what
\* get_user does with a token that is not valid, "none" or "raise"
dispatch_result(path, authorization, invalid) ==
  IF \E i \in 1..Len(EXCLUDED_PATHS) : startswith(path, EXCLUDED_PATHS[i])
  THEN [reached |-> TRUE, status |-> 200, user |-> None]
  ELSE IF ~Truthy(authorization) \/ ~startswith(authorization.v, (* "Bearer " *) <<66,101,97,114,101,114,32>>)
  THEN [reached |-> FALSE, status |-> 401, user |-> None]
  ELSE IF token_of(authorization.v) \notin ValidTokens
  THEN [reached |-> FALSE, status |-> 401, user |-> None]
  ELSE [reached |-> TRUE, status |-> 200, user |-> Str(token_of(authorization.v))]

\* a request passes through AuthMiddleware.dispatch
dispatch ==
  \E path \in AuthPaths, authorization \in Authorizations, invalid \in {"none", "raise"} :
    /\ pc \in {"idle", "done"}
    /\ served < MaxRequests
    /\ served' = served + 1
    /\ pc' = "done"
    /\ req' = [route |-> "dispatch", path |-> path, authorization |-> authorization,
               invalid |-> invalid,
               reached |-> dispatch_result(path, authorization, invalid).reached,
               user |-> dispatch_result(path, authorization, invalid).user]
    /\ resp' = [status |-> dispatch_result(path, authorization, invalid).status]
    /\ UNCHANGED <<call, farmer_queries, storage, uuids, clock>>
    /\ UNCHANGED officer_vars

AuthNext == dispatch

\* the requests that pass through the authentication middleware
AuthSpec == RouteInit /\ [][AuthNext]_vars

----------------------------------------------------------------------------
(* Properties of the responder, checked under Spec *)

\* the call of get_ai_response has returned a value to its caller
Returned == call.pc = "returned" /\ ~call.ret.raised

\* the try block of the call raised an exception
Faulted ==
  compose(call.query, call.language, call.crop_type, call.location,
          Truthy(call.image_analysis), call.image_analysis).raised

\* the lower-cased query of the call holds a token of a symptom of a disease
\* of the catalog of language lg
HasSymptomToken(lg) ==
  disease_hits(get(FARMING_KNOWLEDGE.diseases, lg, <<>>), lower(call.query)) # {}

\* the lower-cased query of the call holds the key name of a pest of the
\* catalog of language lg
HasPestName(lg) ==
  pest_hits(get(FARMING_KNOWLEDGE.pests, lg, <<>>), lower(call.query)) # {}

\* C1: for every supported language, a query that holds a symptom token of
\* the language's disease catalog and a pest name of its pest catalog is
\* answered with response_type disease_diagnosis, never pest_control
C1_DiseasePriority ==
  (/\ call.pc = "returned"
   /\ call.language \in SupportedLanguages
   /\ HasSymptomToken(call.language)
   /\ HasPestName(call.language))
  => (~call.ret.raised /\ call.ret.value.response_type = "disease_diagnosis")

\* C1, its case: a returned Hindi call whose query holds a Hindi symptom
\* token and the pest name, answered as a disease
C1_Witness ==
  /\ Returned
  /\ call.language = (* "hi" *) <<104,105>>
  /\ HasSymptomToken(call.language)
  /\ HasPestName(call.language)
  /\ call.ret.value.response_type = "disease_diagnosis"

\* C2: the query "I see aphids on my plant" in English, with no crop_type,
\* location or image_analysis, is answered with response_type pest_control
\* and confidence 0.8
C2_AphidsScenario ==
  (/\ call.pc = "returned"
   /\ call.query = (* "I see aphids on my plant" *) <<73,32,115,101,101,32,97,112,104,105,100,115,32,111,110,32,109,121,32,112,108,97,110,116>>
   /\ call.language = (* "en" *) <<101,110>>
   /\ call.crop_type = None
   /\ call.location = None
   /\ call.image_analysis = None)
  => (/\ ~call.ret.raised
      /\ call.ret.value.response_type = "pest_control"
      /\ call.ret.value.confidence = 8)

\* C4: with a language code outside {en, hi, te} the call returns exactly what
\* the call with language "en" and the same other arguments returns
C4_LanguageFallback ==
  (call.pc = "returned" /\ call.language \notin SupportedLanguages)
  => call.ret = get_ai_response(call.query, (* "en" *) <<101,110>>, call.crop_type, call.location,
                                Truthy(call.image_analysis), call.image_analysis)

\* C5: the language field of every result, the error fallback included, is
\* one of en, hi, te
C5_LanguageSupported ==
  call.pc = "returned"
  => (~call.ret.raised /\ call.ret.value.language \in SupportedLanguages)

\* the fallback sentence the caller is owed: that of the requested language
\* when it is a supported one, the English one otherwise
OwedSentence(language) ==
  IF language \in SupportedLanguages
  THEN get(fallback_responses, language, <<>>)
  ELSE get(fallback_responses, (* "en" *) <<101,110>>, <<>>)

\* C6: when the try block of get_ai_response raises, the call raises nothing
\* and returns response_type error, confidence 0.1, no suggestions, no
\* actions, and the fallback sentence of the requested language (the English
\* one when the language is not a supported one)
C6_FaultGivesFallback ==
  (call.pc = "returned" /\ Faulted)
  => (/\ ~call.ret.raised
      /\ call.ret.value.response_type = "error"
      /\ call.ret.value.confidence = 1
      /\ call.ret.value.suggestions = <<>>
      /\ call.ret.value.actions = <<>>
      /\ call.ret.value.response # <<>>
      /\ call.ret.value.response = OwedSentence(call.language))

\* C6, its case: a Hindi call with a crop_type that is not a str and no issue
\* in the query has faulted and returned the Hindi fallback sentence
C6_Witness ==
  /\ Returned
  /\ Faulted
  /\ call.language = (* "hi" *) <<104,105>>
  /\ call.crop_type = PyInt(123)
  /\ call.ret.value.response_type = "error"
  /\ call.ret.value.response = get(fallback_responses, (* "hi" *) <<104,105>>, <<>>)

----------------------------------------------------------------------------
(* Properties of the farmer routes, checked under RouteSpec and FairRouteSpec *)

\* submit_query_with_image has ended
ImageRouteDone == pc = "done" /\ req.route = "query-with-image"

\* the response_type of the issue the detection finds
response_type_of(found) ==
  IF found.issue_type = "disease" THEN "disease_diagnosis"
  ELSE IF found.issue_type = "pest" THEN "pest_control"
  ELSE "general_advice"

\* the response_type the keyword matcher gives the submitted text alone
TextAloneType == response_type_of(detect(lang(req.language), lower(req.query_text)))

\* C3: in submit_query_with_image the issue found, and so response_type, is
\* that of the submitted text and language, with or without an image and
\* whatever the image analysis describes
C3_IssueFromTextOnly ==
  (ImageRouteDone /\ resp.status = 200)
  => (~req.ai_response.raised /\ req.ai_response.value.response_type = TextAloneType)

\* the image analysis of the request failed
AnalysisFailed == ImageRouteDone /\ "fault" \in DOMAIN req /\ req.fault

\* C7: when the image analysis fails, the fixed analysis ("Unable to analyze
\* image at this time", confidence 0.0, no detected issues) is used, the
\* request succeeds, and response_type is general_advice or the type of the
\* issue detected in the text, never error
C7_AnalysisFailureTolerated ==
  AnalysisFailed
  => (/\ resp.status = 200
      /\ resp.body.success
      /\ resp.body.image_analysis.tag = "dict"
      /\ resp.body.image_analysis.v.description = (* "Unable to analyze image at this time" *) <<85,110,97,98,108,101,32,116,111,32,97,110,97,108,121,122,101,32,105,109,97,103,101,32,97,116,32,116,104,105,115,32,116,105,109,101>>
      /\ resp.body.image_analysis.v.confidence = 0
      /\ resp.body.image_analysis.v.detected_issues = <<>>
      /\ ~req.ai_response.raised
      /\ req.ai_response.value.response_type # "error"
      /\ req.ai_response.value.response_type = TextAloneType
      /\ resp.body.response = req.ai_response.value.response)

\* C7, its case: a request whose image analysis failed has been answered with
\* general advice
C7_Witness ==
  /\ AnalysisFailed
  /\ resp.status = 200
  /\ req.ai_response.value.response_type = "general_advice"
  /\ resp.body.image_analysis = Dict(analysis_fallback)

C9_UploadFailureSwallowed ==
  (ImageRouteDone /\ "upload" \in DOMAIN req /\ req.upload # "ok")
  => (resp.status = 200 /\ resp.body.success)

\* submit_query has run its handler
QueryHandled == pc = "done" /\ req.route = "query" /\ "db_error" \in DOMAIN req

\* C10: submit_query returns success, the query_id it drew, and the response
\* text, confidence and suggestions of the responder, whether the insert into
\* farmer_queries raised or not; a row is stored only when it did not
C10_InsertFailureSwallowed ==
  QueryHandled
  => (/\ resp.status = 200
      /\ resp.body.success
      /\ resp.body.query_id = req.id
      /\ resp.body.response = req.ai_response.value.response
      /\ resp.body.confidence = req.ai_response.value.confidence
      /\ resp.body.suggestions = req.ai_response.value.suggestions
      /\ (\E i \in 1..Len(farmer_queries) : farmer_queries[i].id = req.id) <=> ~req.db_error)

\* C10, its case: the insert raised and the request succeeded
C10_Witness ==
  /\ QueryHandled
  /\ req.db_error
  /\ resp.status = 200
  /\ resp.body.success
  /\ resp.body.query_id = req.id

----------------------------------------------------------------------------
(* Properties of the query history, checked under HistorySpec *)

\* get_query_history has answered with a page
HistoryReturned == pc = "done" /\ req.route = "query-history" /\ resp.status = 200

\* the row is a query of the farmer
belongs_to(row, farmer_id) == "farmer_id" \in DOMAIN row /\ row.farmer_id = farmer_id

\* C11: get_query_history(farmer_id, ...) returns only rows that belong to the
\* farmer farmer_id, ordered by creation time, descending
C11_HistoryOfFarmer ==
  HistoryReturned
  => (/\ \A i \in 1..Len(resp.body.queries) : belongs_to(resp.body.queries[i], req.farmer_id)
      /\ \A i, j \in 1..Len(resp.body.queries) :
           i < j => resp.body.queries[i].created_at >= resp.body.queries[j].created_at)

----------------------------------------------------------------------------
(* Properties of the catalog routes, checked under CatalogSpec *)

\* a catalog route has been asked for a language code outside en, hi, te
AskedUnsupported ==
  /\ pc = "done"
  /\ req.route \in {"translations", "translations/farmer", "translations/officer",
                    "translations/translate", "popular-topics"}
  /\ req.language \notin SupportedLanguages

\* C12: every per-language lookup of the catalog routes (translations,
\* templates, popular topics) treats a language code outside en, hi, te as en
\* and never rejects it with an error
C12_UnsupportedLanguageIsEnglish ==
  AskedUnsupported
  => (/\ resp.status = 200
      /\ req.route = "translations"
           => resp.body.translations = get(TRANSLATIONS, (* "en" *) <<101,110>>, <<>>)
      /\ req.route = "translations/farmer"
           => resp.body = get(get(TRANSLATIONS, (* "en" *) <<101,110>>, <<>>), (* "farmer_responses" *) <<102,97,114,109,101,114,95,114,101,115,112,111,110,115,101,115>>, <<>>)
      /\ req.route = "translations/officer"
           => resp.body = get(get(TRANSLATIONS, (* "en" *) <<101,110>>, <<>>), (* "officer_templates" *) <<111,102,102,105,99,101,114,95,116,101,109,112,108,97,116,101,115>>, <<>>)
      /\ req.route = "popular-topics"
           => resp.body.topics = get(topics_by_language, (* "en" *) <<101,110>>, <<>>))

----------------------------------------------------------------------------
(* More properties of the responder, checked under Spec *)

\* what the two detection loops find in the query of the call
Found == detect(lang(call.language), lower(call.query))

\* response_type and confidence of the result of the call
Pair == <<call.ret.value.response_type, call.ret.value.confidence>>

IllTyped ==
  \/ Truthy(call.crop_type) /\ call.crop_type.tag # "str"
  \/ Truthy(call.image_analysis) /\ call.image_analysis.tag # "dict"

EndsWith(s, suffix) ==
  /\ Len(suffix) <= Len(s)
  /\ SubSeq(s, Len(s) - Len(suffix) + 1, Len(s)) = suffix

\* the templates of the language of the call
TemplatesOfCall == get(RESPONSE_TEMPLATES, lang(call.language), <<>>)

\* the follow-up sentence for 7 days and the low-confidence sentence, each
\* after a blank line
FollowUp == (* "\n\n" *) <<10,10>> \o format(TemplatesOfCall.follow_up, (* "days" *) <<100,97,121,115>>, (* "7" *) <<55>>)
LowConfidence == (* "\n\n" *) <<10,10>> \o TemplatesOfCall.confidence_low

\* C14: in every result that is no error, the response ends with the 7-day
\* follow-up sentence iff confidence > 0.7 and with the low-confidence
\* sentence iff confidence < 0.6; a disease or pest response ends with the
\* follow-up sentence, a general_advice response with neither
C14_NoticeByConfidence ==
  (call.pc = "returned" /\ ~call.ret.raised /\ call.ret.value.response_type # "error")
  => (/\ EndsWith(call.ret.value.response, FollowUp) <=> call.ret.value.confidence > 7
      /\ EndsWith(call.ret.value.response, LowConfidence) <=> call.ret.value.confidence < 6
      /\ call.ret.value.response_type \in {"disease_diagnosis", "pest_control"}
           => EndsWith(call.ret.value.response, FollowUp)
      /\ call.ret.value.response_type = "general_advice"
           => (/\ ~EndsWith(call.ret.value.response, FollowUp)
               /\ ~EndsWith(call.ret.value.response, LowConfidence)))

\* C14, its case: a Telugu pest response ends with the follow-up sentence
C14_Witness ==
  /\ Returned
  /\ call.language = (* "te" *) <<116,101>>
  /\ call.ret.value.response_type = "pest_control"
  /\ call.ret.value.confidence = 8
  /\ EndsWith(call.ret.value.response, FollowUp)

\* C15: the response text of every result is not empty, on the normal path
\* and on the error path, the empty query included
C15_ResponseNotEmpty ==
  call.pc = "returned" => (~call.ret.raised /\ call.ret.value.response # <<>>)

\* C15, its case: the empty query in an unsupported language, on the error path
C15_Witness ==
  /\ Returned
  /\ call.query = <<>>
  /\ call.language = (* "xx" *) <<120,120>>
  /\ Faulted
  /\ call.ret.value.response # <<>>

\* C16: for every supported language the suggestions of a result that is no
\* error are the first 3 entries, in order, of the language's list of 5
C16_FirstThreeSuggestions ==
  (/\ call.pc = "returned"
   /\ ~call.ret.raised
   /\ call.ret.value.response_type # "error"
   /\ call.language \in SupportedLanguages)
  => (/\ Len(get(suggestions, call.language, <<>>)) = 5
      /\ Len(call.ret.value.suggestions) = 3
      /\ \A i \in 1..3 : call.ret.value.suggestions[i] = get(suggestions, call.language, <<>>)[i])

\* C16, its case: a Hindi disease response carries the first three Hindi
\* suggestions
C16_Witness ==
  /\ Returned
  /\ call.language = (* "hi" *) <<104,105>>
  /\ call.ret.value.response_type = "disease_diagnosis"
  /\ call.ret.value.suggestions = SubSeq(get(suggestions, (* "hi" *) <<104,105>>, <<>>), 1, 3)

\* the action lists of the disease branch and of the pest branch in the
\* language of the call
NoInfo == [treatment |-> <<>>, prevention |-> <<>>, identification |-> <<>>]
DiseaseActions == disease_response(lang(call.language), TemplatesOfCall, <<>>, NoInfo).actions
PestActions == pest_response(lang(call.language), TemplatesOfCall, <<>>, NoInfo).actions

\* C17: actions has exactly 3 entries when response_type is disease_diagnosis
\* or pest_control, the list of a disease being another list than that of a
\* pest, and is empty when response_type is general_advice or error
C17_Actions ==
  call.pc = "returned"
  => (/\ ~call.ret.raised
      /\ call.ret.value.response_type = "disease_diagnosis"
           => (Len(call.ret.value.actions) = 3 /\ call.ret.value.actions # PestActions)
      /\ call.ret.value.response_type = "pest_control"
           => (Len(call.ret.value.actions) = 3 /\ call.ret.value.actions # DiseaseActions)
      /\ call.ret.value.response_type \in {"general_advice", "error"}
           => call.ret.value.actions = <<>>)

\* C17, its case: a pest response with its three actions
C17_Witness ==
  /\ Returned
  /\ call.ret.value.response_type = "pest_control"
  /\ Len(call.ret.value.actions) = 3
  /\ call.ret.value.actions = PestActions
  /\ PestActions # DiseaseActions

----------------------------------------------------------------------------
(* Properties of the officer routes, checked under OfficerSpec *)

\* the store holds no row for the query or for the officer of the body
Unknown(body) ==
  body.query_id \notin DOMAIN queries \/ body.officer_id \notin DOMAIN profiles

\* C18: submit_reply with a query_id or an officer_id the store holds no row
\* for answers 404 and leaves the store as it is: no step the handler takes
\* for such a body inserts a reply or sets a status, the handler gets no
\* further than fetch_profile, and it ends with the status 404
C18_UnknownIsNotFound ==
  [][\A w \in Workers :
       (officer'[w] # officer[w] /\ Unknown(officer'[w].body))
       => (/\ UNCHANGED <<queries, profiles, replies>>
           /\ officer'[w].pc \in {"fetch_profile", "done"}
           /\ officer'[w].pc = "done" => officer'[w].resp.status = 404)]_vars

\* C18, its case: a reply by an unknown officer to a query of the store has
\* been answered 404, and so has a reply to an unknown query
C18_Witness ==
  /\ officer[1].pc = "done"
  /\ officer[1].body.query_id = 1
  /\ officer[1].body.officer_id = (* "officer-9" *) <<111,102,102,105,99,101,114,45,57>>
  /\ officer[1].resp.status = 404
  /\ officer[2].pc = "done"
  /\ officer[2].body.query_id = 3
  /\ officer[2].resp.status = 404
  /\ replies = <<>>
  /\ queries[1].status = "pending"

----------------------------------------------------------------------------
(* Properties of the image route, checked under RouteSpec *)

\* the file extension of the name is one of jpg, jpeg, png and webp: the name
\* ends with a dot and one of them, in either case
HasImageExtension(filename) ==
  \E i \in 1..Len(filename) :
    /\ filename[i] = 46
    /\ lower(SubSeq(filename, i + 1, Len(filename))) \in {(* "jpg" *) <<106,112,103>>, (* "jpeg" *) <<106,112,101,103>>, (* "png" *) <<112,110,103>>, (* "webp" *) <<119,101,98,112>>}

\* a request to submit_query_with_image that passed the validation of its form
\* arrives with an image
ImageArrives ==
  /\ pc \in {"idle", "done"}
  /\ served' = served + 1
  /\ req'.route = "query-with-image"
  /\ valid_request(req'.query_text, req'.language, "medium")
  /\ req'.image # None

\* C19: an image whose file extension is not jpg, jpeg, png or webp, or whose
\* size is over 5 MB, is rejected with 400 before any upload, analysis or
\* composition: the step in which it arrives ends the request with 400, draws
\* no uuid, stores no file and inserts no row
C19_BadImageRejectedFirst ==
  [][(/\ ImageArrives
      /\ \/ ~HasImageExtension(req'.image.filename)
         \/ req'.image.size > 5 * 1024 * 1024)
     => (/\ pc' = "done"
         /\ resp'.status = 400
         /\ UNCHANGED <<storage, uuids, clock, farmer_queries>>)]_vars

\* what holds of C19: a bad image whose name has a dot (46) is rejected first
C19_DottedNameRejectedFirst ==
  [][(/\ ImageArrives
      /\ \E i \in 1..Len(req'.image.filename) : req'.image.filename[i] = 46
      /\ \/ ~HasImageExtension(req'.image.filename)
         \/ req'.image.size > 5 * 1024 * 1024)
     => (/\ pc' = "done"
         /\ resp'.status = 400
         /\ UNCHANGED <<storage, uuids, clock, farmer_queries>>)]_vars

----------------------------------------------------------------------------
(* Properties of repeated calls of the responder, checked under RepeatSpec *)

----------------------------------------------------------------------------
(* The detection of the responder, checked under CatalogCallSpec *)

\* the disease catalog of the language of the call, and its diseases with a
\* symptom token that occurs in the lower-cased query
DiseasesOfCall == get(FARMING_KNOWLEDGE.diseases, lang(call.language), <<>>)
DiseasesHit == disease_hits(DiseasesOfCall, lower(call.query))

\* the response text reports the disease: it starts with the disease_detected
\* sentence for its name and holds its treatment
Reports(disease) ==
  /\ SubSeq(call.ret.value.response, 1,
            Len(format(TemplatesOfCall.disease_detected, (* "disease" *) <<100,105,115,101,97,115,101>>, disease[1])))
       = format(TemplatesOfCall.disease_detected, (* "disease" *) <<100,105,115,101,97,115,101>>, disease[1])
  /\ contains(disease[2].treatment, call.ret.value.response)

\* C21: the disease returned is the first one in the catalog order leaf_spot,
\* blight, rust with a symptom token that occurs in the lower-cased query; a
\* later disease is returned only when no earlier one has such a token, and
\* no second disease is reported
C21_FirstDiseaseInOrder ==
  call.pc = "returned"
  => LET hits == DiseasesHit
     IN /\ [i \in 1..Len(DiseasesOfCall) |-> DiseasesOfCall[i][1]]
              = << (* "leaf_spot" *) <<108,101,97,102,95,115,112,111,116>>, (* "blight" *) <<98,108,105,103,104,116>>, (* "rust" *) <<114,117,115,116>> >>
        /\ \A i \in hits :
             IF \A j \in hits : i <= j
             THEN /\ ~call.ret.raised
                  /\ call.ret.value.response_type = "disease_diagnosis"
                  /\ Reports(DiseasesOfCall[i])
             ELSE ~contains(DiseasesOfCall[i][2].treatment, call.ret.value.response)

\* C21, its case: tokens of blight and of rust occur in the query, none of
\* leaf_spot does, and blight is reported
C21_Witness ==
  /\ Returned
  /\ call.language = (* "hi" *) <<104,105>>
  /\ DiseasesHit = {2, 3}
  /\ call.ret.value.response_type = "disease_diagnosis"
  /\ Reports(DiseasesOfCall[2])
  /\ ~contains(DiseasesOfCall[3][2].treatment, call.ret.value.response)

\* the pest catalog of the language of the call, and its pests whose key name
\* occurs in the lower-cased query
PestsOfCall == get(FARMING_KNOWLEDGE.pests, lang(call.language), <<>>)
PestsNamed ==
  {i \in 1..Len(PestsOfCall) : contains(lower(PestsOfCall[i][1]), lower(call.query))}

\* the response text reports the pest: it starts with the pest_identified
\* sentence for its name and holds its treatment
ReportsPest(pest) ==
  /\ SubSeq(call.ret.value.response, 1,
            Len(format(TemplatesOfCall.pest_identified, (* "pest" *) <<112,101,115,116>>, pest[1])))
       = format(TemplatesOfCall.pest_identified, (* "pest" *) <<112,101,115,116>>, pest[1])
  /\ contains(pest[2].treatment, call.ret.value.response)

\* C22: the result is pest_control exactly when no disease symptom token
\* occurs in the lower-cased query and a pest key name of the language's pest
\* catalog does; the pest reported is the first such key in the catalog order
\* aphids, whiteflies; a word of an identification text alone gives no pest
C22_PestExactlyByName ==
  call.pc = "returned"
  => LET diseased == DiseasesHit # {}
         named == PestsNamed
     IN /\ ~call.ret.raised
        /\ [i \in 1..Len(PestsOfCall) |-> PestsOfCall[i][1]] = << (* "aphids" *) <<97,112,104,105,100,115>>, (* "whiteflies" *) <<119,104,105,116,101,102,108,105,101,115>> >>
        /\ call.ret.value.response_type = "pest_control" <=> (~diseased /\ named # {})
        /\ \A i \in named :
             (~diseased /\ \A j \in named : i <= j) => ReportsPest(PestsOfCall[i])
        /\ (/\ named = {}
            /\ \E i \in 1..Len(PestsOfCall) :
                 any_keyword(split(lower(PestsOfCall[i][2].identification)), lower(call.query)))
           => call.ret.value.response_type # "pest_control"

\* C22, its case: both pest names occur in the query, whiteflies first, no
\* symptom token does, and aphids is reported
C22_Witness ==
  /\ Returned
  /\ call.query = (* "Whiteflies aphids" *) <<87,104,105,116,101,102,108,105,101,115,32,97,112,104,105,100,115>>
  /\ DiseasesHit = {}
  /\ PestsNamed = {1, 2}
  /\ call.ret.value.response_type = "pest_control"
  /\ ReportsPest(PestsOfCall[1])
  /\ ~contains(PestsOfCall[2][2].treatment, call.ret.value.response)

\* a query of words of an identification text that name no pest is given
\* general advice
IdentificationWordsOnly ==
  /\ Returned
  /\ call.query = (* "tiny insects" *) <<116,105,110,121,32,105,110,115,101,99,116,115>>
  /\ call.language = (* "en" *) <<101,110>>
  /\ PestsNamed = {}
  /\ call.ret.value.response_type = "general_advice"

----------------------------------------------------------------------------
(* The context of the call in the response text, checked under CatalogCallSpec *)

\* an issue is detected in the query of the call
IssueDetected == DiseasesHit # {} \/ PestsNamed # {}

\* the descriptions of the image analyses of the model
Descriptions ==
  {a.v.description : a \in {a \in CatalogAnalyses : a.tag = "dict"}}

DescriptionReported ==
  /\ Returned
  /\ ~IssueDetected
  /\ Truthy(call.image_analysis)
  /\ call.image_analysis.tag = "dict"
  /\ "recommendations" \notin DOMAIN call.image_analysis.v
  /\ contains(call.image_analysis.v.description, call.ret.value.response)

\* the crop table of the language of the call, and the crop_type of the call
\* as a key of it
CropsOfCall == get(crop_advice, lang(call.language), <<>>)
Recognized ==
  /\ call.crop_type.tag = "str"
  /\ \E i \in 1..Len(CropsOfCall) : CropsOfCall[i][1] = lower(call.crop_type.v)

\* the result of the call made without its crop_type
WithoutCrop ==
  get_ai_response(call.query, call.language, None, call.location,
                  Truthy(call.image_analysis), call.image_analysis)

\* a recognized crop_type adds the advice sentence of the crop to the text of
\* the no-issue branch
RecognizedCropAdvised ==
  (call.pc = "returned" /\ ~IssueDetected /\ ~IllTyped /\ Recognized)
  => (/\ [i \in 1..Len(CropsOfCall) |-> CropsOfCall[i][1]]
           = << (* "tomato" *) <<116,111,109,97,116,111>>, (* "wheat" *) <<119,104,101,97,116>>, (* "rice" *) <<114,105,99,101>>, (* "cotton" *) <<99,111,116,116,111,110>> >>
      /\ contains(get(CropsOfCall, lower(call.crop_type.v), <<>>), call.ret.value.response)
      /\ ~contains(get(CropsOfCall, lower(call.crop_type.v), <<>>), WithoutCrop.value.response))

\* C24: in the no-issue branch a crop_type recognized case-insensitively in
\* the crop table of the language adds the advice sentence of the crop; a
\* crop_type that is not recognized adds no text, the response text is that of
\* the call without crop_type, and the result is general_advice with
\* confidence 0.6 and no trailing notice
C24_UnrecognizedCropSkipped ==
  /\ RecognizedCropAdvised
  /\ (/\ call.pc = "returned"
      /\ ~IssueDetected
      /\ ~IllTyped
      /\ Truthy(call.crop_type)
      /\ ~Recognized)
     => (/\ call.ret.value.response = WithoutCrop.value.response
         /\ Pair = <<"general_advice", 6>>
         /\ ~EndsWith(call.ret.value.response, FollowUp)
         /\ ~EndsWith(call.ret.value.response, LowConfidence))

\* the topic keywords in their priority order, and those that occur in the
\* lower-cased query of the call, as indices
TopicKeywords == << (* "water" *) <<119,97,116,101,114>>, (* "soil" *) <<115,111,105,108>>, (* "fertilizer" *) <<102,101,114,116,105,108,105,122,101,114>>, (* "weather" *) <<119,101,97,116,104,101,114>> >>
TopicsInQuery == {k \in 1..Len(TopicKeywords) : contains(TopicKeywords[k], lower(call.query))}

\* the generic advice table and the default sentence of the language of the call
GenericAdviceOfCall == get(generic_advice, lang(call.language), <<>>)
DefaultAdviceOfCall == get(default_advice, lang(call.language), <<>>)

\* C25: the generic advice of a general_advice response is the sentence of
\* the first topic keyword, in the order water, soil, fertilizer, weather, that
\* occurs in the lower-cased query, and the default sentence of the language
\* when none occurs; with "soil" and "water" in the query it is the water
\* sentence
C25_GenericAdviceByPriority ==
  (call.pc = "returned" /\ ~call.ret.raised /\ call.ret.value.response_type = "general_advice")
  => (/\ [i \in 1..Len(GenericAdviceOfCall) |-> GenericAdviceOfCall[i][1]] = TopicKeywords
      /\ \A k \in TopicsInQuery :
           IF \A j \in TopicsInQuery : k <= j
           THEN EndsWith(call.ret.value.response, GenericAdviceOfCall[k][2])
           ELSE ~contains(GenericAdviceOfCall[k][2], call.ret.value.response)
      /\ TopicsInQuery = {} => EndsWith(call.ret.value.response, DefaultAdviceOfCall)
      /\ TopicsInQuery # {} => ~contains(DefaultAdviceOfCall, call.ret.value.response)
      /\ {1, 2} \subseteq TopicsInQuery
           => EndsWith(call.ret.value.response, get(GenericAdviceOfCall, (* "water" *) <<119,97,116,101,114>>, <<>>)))

\* C25, its case: a Telugu call whose query has soil before water and
\* weather, answered with the water sentence
C25_Witness ==
  /\ Returned
  /\ call.language = (* "te" *) <<116,101>>
  /\ call.query = (* "soil water weather" *) <<115,111,105,108,32,119,97,116,101,114,32,119,101,97,116,104,101,114>>
  /\ TopicsInQuery = {1, 2, 4}
  /\ call.ret.value.response_type = "general_advice"
  /\ EndsWith(call.ret.value.response, get(GenericAdviceOfCall, (* "water" *) <<119,97,116,101,114>>, <<>>))

----------------------------------------------------------------------------
(* The low-confidence notice, checked under CatalogCallSpec *)

\* the confidence_low sentences of the templates of all languages
LowConfidenceSentences ==
  {RESPONSE_TEMPLATES[i][2].confidence_low : i \in 1..Len(RESPONSE_TEMPLATES)}

\* C29: no response of get_ai_response holds the low-confidence notice: a
\* result that is no error has confidence 0.8 or 0.6, and the error fallback,
\* with 0.1, is the fallback sentence alone
C29_NoLowConfidenceNotice ==
  call.pc = "returned"
  => (/\ ~call.ret.raised
      /\ \A sentence \in LowConfidenceSentences : ~contains(sentence, call.ret.value.response)
      /\ call.ret.value.response_type # "error" => call.ret.value.confidence \in {6, 8}
      /\ call.ret.value.response_type = "error"
           => (/\ call.ret.value.confidence = 1
               /\ call.ret.value.response
                    = get(fallback_responses, call.language, get(fallback_responses, (* "en" *) <<101,110>>, <<>>))))

\* C29, its case: the try block of a Hindi call raised, and the result is the
\* Hindi fallback sentence alone, with confidence 0.1
C29_Witness ==
  /\ Returned
  /\ call.language = (* "hi" *) <<104,105>>
  /\ Faulted
  /\ call.ret.value.confidence = 1
  /\ call.ret.value.response = get(fallback_responses, (* "hi" *) <<104,105>>, <<>>)
  /\ Cardinality(LowConfidenceSentences) = 3
  /\ \A sentence \in LowConfidenceSentences : sentence # <<>>

----------------------------------------------------------------------------
(* The authentication middleware, checked under AuthSpec *)

\* the request carries a Bearer token that get_user verifies
VerifiedBearer ==
  /\ req.authorization # None
  /\ startswith(req.authorization.v, (* "Bearer " *) <<66,101,97,114,101,114,32>>)
  /\ SubSeq(req.authorization.v, 8, Len(req.authorization.v)) \in ValidTokens

\* the path is one of the routes that do not require authentication, or lies
\* under one of them
PublicPath ==
  \E i \in 1..Len(EXCLUDED_PATHS) :
    \/ req.path = EXCLUDED_PATHS[i]
    \/ EXCLUDED_PATHS[i] # (* "/" *) <<47>> /\ startswith(req.path, EXCLUDED_PATHS[i] \o (* "/" *) <<47>>)

\* C26: a request reaches the handler without a verified Bearer token only
\* when its path is one of the routes that do not require authentication; a
\* request to another path, /officers/reply for one, whose Authorization
\* header is missing, malformed or invalid is rejected with 401 and does not
\* reach the handler
C26_OnlyPublicPathsUnauthenticated ==
  (req.route = "dispatch" /\ pc = "done" /\ ~VerifiedBearer)
  => (/\ req.reached => PublicPath
      /\ ~PublicPath => (resp.status = 401 /\ ~req.reached))

----------------------------------------------------------------------------
(* The replies of concurrent handlers, checked under OfficerSpec *)

\* the replies of the store to the query
RepliesTo(query_id) == {i \in 1..Len(replies) : replies[i].query_id = query_id}

\* C27: under every interleaving of the steps of concurrent submit_reply
\* calls, a query whose status submit_reply has set to "answered" has a reply
\* row in the store; the step that sets the status is taken by a handler that
\* has inserted its reply, and a handler whose insert returned no row ends
\* with 500 and sets no status
C27_AnsweredHasReply ==
  /\ \A id \in DOMAIN queries : queries[id].status = "answered" => RepliesTo(id) # {}
  /\ \A w \in Workers :
       /\ officer[w].pc = "update"
            => \E i \in RepliesTo(officer[w].body.query_id) : replies[i] = officer[w].ins
       /\ (officer[w].pc = "done" /\ officer[w].resp.status = 500)
            => "ins" \notin DOMAIN officer[w]

\* C27, its case: two handlers ran side by side; the insert of the one
\* returned a row and its query is answered, the insert of the other returned
\* none and its query still waits
C27_Witness ==
  /\ officer[1].pc = "done"
  /\ officer[1].resp.status = 200
  /\ officer[1].body.query_id = 1
  /\ queries[1].status = "answered"
  /\ RepliesTo(1) # {}
  /\ officer[2].pc = "done"
  /\ officer[2].resp.status = 500
  /\ officer[2].body.query_id = 2
  /\ queries[2].status = "pending"
  /\ RepliesTo(2) = {}

\* C28: the query a successful submit_reply returns is the row fetch_query
\* read before the reply was inserted and the status updated: the step that
\* updates the status returns the handler's snapshot q, whose status is still
\* "pending" unless another reply to the query was in the store before, while
\* the store holds "answered"
C28_ReturnsSnapshot ==
  [][\A w \in Workers :
       (officer[w].pc = "update" /\ officer'[w].pc = "done")
       => (/\ officer'[w].resp.status = 200
           /\ officer'[w].resp.body.query = officer[w].q
           /\ queries'[officer[w].body.query_id].status = "answered"
           /\ RepliesTo(officer[w].body.query_id) = {officer[w].ins.id}
                => officer'[w].resp.body.query.status = "pending")]_vars

\* C28, its case: a handler has returned the query as pending, and the store
\* holds it as answered
C28_Witness ==
  /\ officer[1].pc = "done"
  /\ officer[1].resp.status = 200
  /\ officer[1].resp.body.query.id = 2
  /\ officer[1].resp.body.query.status = "pending"
  /\ queries[2].status = "answered"

----------------------------------------------------------------------------
(* The pages of the query history, checked under HistorySpec *)

\* the rows of the store that match the filters of the request, as indices
Matching ==
  {i \in 1..Len(farmer_queries) :
     \/ ~Truthy(req.language)
     \/ "language" \in DOMAIN farmer_queries[i] /\ farmer_queries[i].language = req.language.v}

\* C30: get_query_history with limit > 0 reports has_more = true if and only
\* if the store holds matching records after the returned page, beyond the
\* position offset + limit of the order by creation time, descending
C30_HasMoreIffMoreRecords ==
  (HistoryReturned /\ req.limit > 0)
  => (resp.body.has_more <=> Cardinality(Matching) > req.offset + req.limit)

\* has_more is reported exactly when the page is full
HasMoreIffPageFull ==
  HistoryReturned
  => (resp.body.has_more <=> Len(resp.body.queries) = req.limit)

=============================================================================
